---------------------------- MODULE Spec2Model ----------------------------
(***************************************************************************)
(* Vietnamese number-to-text conversion (tienbangchu).                     *)
(*                                                                         *)
(* Three converters are modelled from the source:                          *)
(*   - TurboVietnameseConverter  (pkg/converter/vietnamese_optimized.go)   *)
(*   - vietnameseConverter       (pkg/converter/testframework.go)          *)
(*   - ZeroAllocConverter        (pkg/turbo/converter.go)                  *)
(*                                                                         *)
(* Text.  A Go string is modelled as the sequence of its Unicode code      *)
(* points.  A code point outside ASCII is written in VIQR, the 7-bit       *)
(* transcription of Vietnamese:  "o^." is o-circumflex-dot-below,          *)
(* "u+" is u-horn, "a(" is a-breve, "dd" is d-stroke; the grave is "!".    *)
(* Utf8Len gives the number of bytes each code point takes in Go.          *)
(*                                                                         *)
(* Numbers.  An int64 is modelled as [neg, hi, lo] with value              *)
(* +/-(hi * 10^9 + lo), 0 <= lo < 10^9, because the model checker's        *)
(* integers are narrower than 64 bits.  Mod1000 and Div1000 are %1000 and  *)
(* /1000 on that representation.                                           *)
(***************************************************************************)
EXTENDS Integers, Sequences, FiniteSets, Bags, TLC

VARIABLES
    number,       \* argument of the call under test (sequential harness)
    currency,     \* currency argument of the call under test
    turboOut,     \* outcome of TurboVietnameseConverter.ConvertWithCurrency
    vcOut,        \* outcome of vietnameseConverter.ConvertWithCurrency
    zaOut,        \* outcome of ZeroAllocConverter.Convert
    bufferPool,   \* TurboVietnameseConverter.bufferPool: builders at rest
    tcall,        \* per goroutine: state of its ConvertWithCurrency call
    started,      \* number of Turbo calls entered so far
    returned,     \* history: (number, currency, outcome) of finished Turbo calls
    padIndex,     \* ZeroAllocConverter.padIndex
    scratchPads,  \* ZeroAllocConverter.scratchPads: bytes of each backing array
    zcall,        \* per goroutine: state of its ZeroAllocConverter.Convert call
    zstarted,     \* number of ZeroAllocConverter.Convert calls entered so far
    zresults,     \* history: strings handed out by ZeroAllocConverter.Convert
    plainOut,     \* outcome of ConvertWithCurrency(number, "") (SpecCurrency)
    metrics,      \* PerfectService.metrics: the four counters of AtomicMetrics
    scall,        \* per client: state of its PerfectService.ServeHTTP call
    sdone,        \* per client: number of ServeHTTP calls that have ended
    peakLeft,     \* history: latencies of the calls that left the peak loop
    conv,         \* the ZeroAllocConverter NewZeroAllocConverter builds (SpecCache)
    handler,      \* ConvertHandler: its converter, last request and response
    poolOps,      \* history: Get and Put operations on bufferPool (SpecPool)
    connPool,     \* PerfectService.connPool: the connections in conns
    connState     \* per connection: the last http.ConnState reported for it

vars == <<number, currency, turboOut, vcOut, zaOut, bufferPool, tcall,
          started, returned, padIndex, scratchPads, zcall, zstarted,
          zresults, plainOut, metrics, scall, sdone, peakLeft, conv,
          handler, poolOps, connPool, connState>>

---------------------------------------------------------------------------
(* Text: code points and UTF-8 byte lengths                                *)

TwoByteRunes == {"a(", "a'", "a^", "i'", "i!", "u+", "o+", "o^", "dd"}

ThreeByteRunes == {"o^.", "o^'", "o^!", "o^~", "o+!", "o+.", "a?", "e?",
                   "e^.", "y?"}

Utf8Len(r) == IF r \in ThreeByteRunes THEN 3
              ELSE IF r \in TwoByteRunes THEN 2 ELSE 1

\* Go's len(s) of a string: its length in bytes.
len(s) ==
    Len(s) + Cardinality({i \in 1..Len(s) : s[i] \in TwoByteRunes})
           + 2 * Cardinality({i \in 1..Len(s) : s[i] \in ThreeByteRunes})

SP == " "

\* The words of the tables, spelled as code points.
mot    == <<"m", "o^.", "t">>
hai    == <<"h", "a", "i">>
ba     == <<"b", "a">>
bon    == <<"b", "o^'", "n">>
nam    == <<"n", "a(", "m">>
sau    == <<"s", "a'", "u">>
bay    == <<"b", "a?", "y">>
tam    == <<"t", "a'", "m">>
chin   == <<"c", "h", "i'", "n">>
muoi10 == <<"m", "u+", "o+!", "i">>
muoi   == <<"m", "u+", "o+", "i">>
mot21  == <<"m", "o^'", "t">>
tu     == <<"t", "u+">>
lam    == <<"l", "a(", "m">>
tram   == <<"t", "r", "a(", "m">>
le     == <<"l", "e?">>
khong  == <<"k", "h", "o^", "n", "g">>
nghin  == <<"n", "g", "h", "i!", "n">>
trieu  == <<"t", "r", "i", "e^.", "u">>
ty     == <<"t", "y?">>
dong   == <<"dd", "o^!", "n", "g">>

\* s[from..] starts with p
HasPrefixAt(s, from, p) ==
    /\ from + Len(p) - 1 <= Len(s)
    /\ \A k \in 1..Len(p) : s[from + k - 1] = p[k]

\* strings.Contains
Contains(s, p) == \E i \in 1..Len(s) : HasPrefixAt(s, i, p)

\* the least element of a non-empty set of integers
Min(S) == CHOOSE x \in S : \A y \in S : x <= y

RECURSIVE ReplaceFrom(_, _, _, _)
\* s[i..] with the matches of old replaced, scanning from the left
ReplaceFrom(s, i, old, new) ==
    LET matches == {j \in i..Len(s) : HasPrefixAt(s, j, old)} IN
    IF matches = {} THEN SubSeq(s, i, Len(s))
    ELSE LET j == Min(matches)
         IN  SubSeq(s, i, j - 1) \o new \o ReplaceFrom(s, j + Len(old), old, new)

\* strings.ReplaceAll for a non-empty old: leftmost non-overlapping matches
ReplaceAll(s, old, new) == ReplaceFrom(s, 1, old, new)

\* strings.Builder.WriteString / WriteRune on the builder's content
WriteString(sb, s) == sb \o s
WriteRune(sb, r) == Append(sb, r)

---------------------------------------------------------------------------
(* int64 numbers                                                           *)

I64(h, l) == [neg |-> FALSE, hi |-> h, lo |-> l]
Neg(h, l) == [neg |-> TRUE, hi |-> h, lo |-> l]

Zero == I64(0, 0)
\* 999,999,999,999,999
MaxNumber == I64(999999, 999999999)

IsZero(n) == n.hi = 0 /\ n.lo = 0
LtZero(n) == n.neg /\ ~IsZero(n)
GtZero(n) == ~n.neg /\ ~IsZero(n)
\* a > b
Gt(a, b) ==
    IF a.neg /\ b.neg THEN a.hi < b.hi \/ (a.hi = b.hi /\ a.lo < b.lo)
    ELSE IF a.neg THEN FALSE
    ELSE IF b.neg THEN TRUE
    ELSE a.hi > b.hi \/ (a.hi = b.hi /\ a.lo > b.lo)

\* n / 1000 with the carry from the high part into the low part dropped
Div1000NoCarry(n) == I64(n.hi \div 1000, n.lo \div 1000)

\* n % 1000 and n / 1000, for n >= 0
Mod1000(n) == n.lo % 1000
Div1000(n) == I64(n.hi \div 1000, (n.hi % 1000) * 1000000 + (n.lo \div 1000))

---------------------------------------------------------------------------
(* Outcome of a call: the returned text and the error ("" is nil)          *)

NoOut == [called |-> FALSE, text |-> <<>>, err |-> "", marks |-> <<>>]
Ok(t, m) == [called |-> TRUE, text |-> t, err |-> "", marks |-> m]
Fail(e) == [called |-> TRUE, text |-> <<>>, err |-> e, marks |-> <<>>]

ErrNegative == "negative numbers not supported"
ErrTooLarge == "number too large (max: 999,999,999,999,999)"

---------------------------------------------------------------------------
(* TurboVietnameseConverter                                                *)

TurboUnits(d) ==
    <<<<>>, mot, hai, ba, bon, nam, sau, bay, tam, chin>>[d + 1]

\* TurboScales with the words of indexes 4 and 5 exchanged
TurboScalesSwapped(i) ==
    << <<>>, nghin, trieu, ty, trieu \o <<SP>> \o ty,
       nghin \o <<SP>> \o ty, ty \o <<SP>> \o ty >>[i + 1]

TurboScales(i) ==
    << <<>>, nghin, trieu, ty, nghin \o <<SP>> \o ty,
       trieu \o <<SP>> \o ty, ty \o <<SP>> \o ty >>[i + 1]

specialMap == (1 :> mot21) @@ (4 :> tu) @@ (5 :> lam)

\* appendLe without the link word
appendLeNoLink(sb, units) == WriteString(sb, TurboUnits(units))

\* appendGroup, "lẻ" + ' ' + units[units]: the x01..x09 case
appendLe(sb, units) ==
    WriteString(WriteRune(WriteString(sb, le), SP), TurboUnits(units))

\* appendTens with the 10-19 branch sharing the 20-99 special cases
appendTensShared(sb, tens, units) ==
    IF tens >= 1 THEN
        LET b1 == IF tens > 1
                  THEN WriteString(WriteString(sb, TurboUnits(tens)),
                                   <<SP>> \o muoi)
                  ELSE WriteString(sb, muoi10)
        IN  IF units > 0 THEN
                IF units \in DOMAIN specialMap
                THEN WriteString(WriteRune(b1, SP), specialMap[units])
                ELSE WriteString(WriteRune(b1, SP), TurboUnits(units))
            ELSE b1
    ELSE WriteString(sb, TurboUnits(units))

\* needsFiller without the first-group test, and never true
needsFillerAnyGroup(isFirst, remainder) == remainder > 0
needsFillerNever(isFirst, remainder) == FALSE

\* appendGroup, the guard of the "không trăm" branch
needsFiller(isFirst, remainder) == ~isFirst /\ remainder > 0

\* appendGroup, lines 186-215: the tens place with its special cases
appendTens(sb, tens, units) ==
    IF tens > 1 THEN
        LET b1 == WriteString(WriteString(sb, TurboUnits(tens)),
                              <<SP>> \o muoi)
        IN  IF units > 0 THEN
                IF units \in DOMAIN specialMap
                THEN WriteString(WriteRune(b1, SP), specialMap[units])
                ELSE WriteString(WriteRune(b1, SP), TurboUnits(units))
            ELSE b1
    ELSE IF tens = 1 THEN
        LET b1 == WriteString(sb, muoi10)
        IN  IF units > 0 THEN
                IF units = 5
                THEN WriteString(WriteRune(b1, SP), lam)
                ELSE WriteString(WriteRune(b1, SP), TurboUnits(units))
            ELSE b1
    ELSE WriteString(sb, TurboUnits(units))


appendGroup(sb, group, scale, isFirst) ==
    LET hundreds  == group \div 100
        remainder == group % 100
        tens      == remainder \div 10
        units     == remainder % 10
    IN  IF hundreds > 0 THEN
            LET b1 == WriteString(WriteString(sb, TurboUnits(hundreds)),
                                  <<SP>> \o tram)
            IN  IF remainder > 0 THEN
                    IF tens = 0
                    THEN appendLe(WriteRune(b1, SP), units)
                    ELSE appendTens(WriteRune(b1, SP), tens, units)
                ELSE b1
        ELSE IF needsFiller(isFirst, remainder) THEN
            LET b1 == WriteRune(WriteString(sb, khong \o <<SP>> \o tram), SP)
            IN  IF tens = 0
                THEN appendLe(b1, units)
                ELSE appendTens(b1, tens, units)
        ELSE appendTens(sb, tens, units)

\* var groups [5]int, and the length of the scales table
GroupSlots == 5
NumScales == 7

RECURSIVE TurboSegment(_, _)
\* for temp > 0 { groups[groupCount] = int(temp % 1000); temp /= 1000; groupCount++ }
\* groups[i] of the code is groups[i + 1] here; groupCount is Len(groups).
TurboSegment(temp, groups) ==
    IF GtZero(temp)
    THEN TurboSegment(Div1000(temp), Append(groups, Mod1000(temp)))
    ELSE groups

RECURSIVE TurboGroupLoopNoSkip(_, _, _, _)
\* TurboGroupLoop with a zero group written as "không" and its scale word
TurboGroupLoopNoSkip(st, groups, i, firstGroup) ==
    IF i < 0 THEN st
    ELSE
        LET group == groups[i + 1]
            b1 == IF ~firstGroup THEN WriteRune(st.sb, SP) ELSE st.sb
            b2 == IF group = 0 THEN WriteString(b1, khong)
                  ELSE appendGroup(b1, group, i, firstGroup)
            b3 == IF i > 0
                  THEN WriteString(WriteRune(b2, SP), TurboScales(i))
                  ELSE b2
            mk == [index |-> i, group |-> group,
                   from |-> Len(b1) + 1, to |-> Len(b2)]
        IN  TurboGroupLoopNoSkip(
                [sb |-> b3,
                 marks |-> IF group = 0 THEN st.marks ELSE Append(st.marks, mk)],
                groups, i - 1, FALSE)

RECURSIVE TurboGroupLoop(_, _, _, _)
\* for i := groupCount - 1; i >= 0; i-- { ... }.  st.sb is the builder's
\* content; st.marks records, for each appendGroup call, the group index and
\* the span of the builder it wrote (a history of the run, not program state).
TurboGroupLoop(st, groups, i, firstGroup) ==
    IF i < 0 THEN st
    ELSE
        LET group == groups[i + 1] IN
        IF group = 0 THEN
            TurboGroupLoop(
                IF Len(groups) = 1
                THEN [st EXCEPT !.sb = WriteString(st.sb, khong)] ELSE st,
                groups, i - 1, firstGroup)
        ELSE
            LET b1 == IF ~firstGroup THEN WriteRune(st.sb, SP) ELSE st.sb
                b2 == appendGroup(b1, group, i, firstGroup)
                b3 == IF i > 0
                      THEN WriteString(WriteRune(b2, SP), TurboScales(i))
                      ELSE b2
                mk == [index |-> i, group |-> group,
                       from |-> Len(b1) + 1, to |-> Len(b2)]
            IN  TurboGroupLoop([sb |-> b3, marks |-> Append(st.marks, mk)],
                               groups, i - 1, FALSE)

\* if currency != "" { sb.WriteRune(' '); sb.WriteString(currency) }
TurboAppendCurrency(sb, cur) ==
    IF cur # <<>> THEN WriteString(WriteRune(sb, SP), cur) ELSE sb

\* the normalization with the arguments of ReplaceAll exchanged
TurboNormalizeReversed(result) ==
    ReplaceAll(result, muoi \o <<SP>> \o mot21, muoi \o <<SP>> \o mot)

\* the "mươi một" -> "mươi mốt" pass over the finished string
TurboNormalize(result) ==
    IF Contains(result, muoi \o <<SP>> \o mot)
    THEN ReplaceAll(result, muoi \o <<SP>> \o mot, muoi \o <<SP>> \o mot21)
    ELSE result

\* Reset that keeps the content
ResetKeeps(sb) == sb

\* strings.Builder.Reset
Reset(sb) == <<>>

\* The body of ConvertWithCurrency after the builder sb was taken from the
\* pool: the builder's final content and the marks.
TurboFill(sb, num, cur) ==
    LET groups == TurboSegment(num, <<>>)
        st     == TurboGroupLoop([sb |-> Reset(sb), marks |-> <<>>], groups,
                                 Len(groups) - 1, TRUE)
    IN  [st EXCEPT !.sb = TurboAppendCurrency(st.sb, cur)]

\* TurboEarly with the upper bound off by one
TurboEarlyOffByOne(num, cur) ==
    IF LtZero(num) THEN Fail(ErrNegative)
    ELSE IF Gt(num, I64(1000000, 0)) THEN Fail(ErrTooLarge)
    ELSE IF IsZero(num) THEN
        IF cur # <<>> THEN Ok(khong \o <<SP>> \o cur, <<>>) ELSE Ok(khong, <<>>)
    ELSE NoOut

\* TurboEarly with the currency test of the zero case dropped
TurboEarlyAlwaysSuffix(num, cur) ==
    IF LtZero(num) THEN Fail(ErrNegative)
    ELSE IF Gt(num, MaxNumber) THEN Fail(ErrTooLarge)
    ELSE IF IsZero(num) THEN Ok(khong \o <<SP>> \o cur, <<>>)
    ELSE NoOut

\* The early returns of ConvertWithCurrency: validation and zero.
TurboEarly(num, cur) ==
    IF LtZero(num) THEN Fail(ErrNegative)
    ELSE IF Gt(num, MaxNumber) THEN Fail(ErrTooLarge)
    ELSE IF IsZero(num) THEN
        IF cur # <<>> THEN Ok(khong \o <<SP>> \o cur, <<>>) ELSE Ok(khong, <<>>)
    ELSE NoOut

---------------------------------------------------------------------------
(* vietnameseConverter                                                     *)

VCUnits(d) ==
    <<<<>>, mot, hai, ba, bon, nam, sau, bay, tam, chin>>[d + 1]

VCScales ==
    << <<>>, nghin, trieu, ty, nghin \o <<SP>> \o ty,
       trieu \o <<SP>> \o ty, ty \o <<SP>> \o ty >>

RECURSIVE Join(_, _)
\* strings.Join(parts, sep)
Join(parts, sep) ==
    IF parts = <<>> THEN <<>>
    ELSE IF Len(parts) = 1 THEN parts[1]
    ELSE parts[1] \o sep \o Join(Tail(parts), sep)

\* strings.Fields: the maximal runs of non-space code points, in order
Fields(s) ==
    LET starts == {i \in 1..Len(s) : s[i] # SP /\ (i = 1 \/ s[i - 1] = SP)}
        endOf(i) == Min({j \in i..Len(s) : j = Len(s) \/ s[j + 1] = SP})
        \* the k-th start, counting from 1
        nth(k) == CHOOSE i \in starts :
                      Cardinality({x \in starts : x < i}) = k - 1
    IN  [k \in 1..Cardinality(starts) |-> SubSeq(s, nth(k), endOf(nth(k)))]

\* strings.HasSuffix
HasSuffix(s, suffix) ==
    /\ Len(suffix) <= Len(s)
    /\ SubSeq(s, Len(s) - Len(suffix) + 1, Len(s)) = suffix

RECURSIVE splitIntoGroups(_, _)
\* groups = append([]int{int(number % 1000)}, groups...): most significant first
splitIntoGroups(num, groups) ==
    IF GtZero(num)
    THEN splitIntoGroups(Div1000(num), <<Mod1000(num)>> \o groups)
    ELSE groups

convertThreeDigitGroup(group, scaleIndex, isFirst) ==
    IF group = 0 THEN <<>>
    ELSE
    LET hundreds  == group \div 100
        remainder == group % 100
        tens      == remainder \div 10
        units     == remainder % 10
        p1 == IF hundreds > 0 THEN <<VCUnits(hundreds) \o <<SP>> \o tram>>
              ELSE IF ~isFirst /\ (tens > 0 \/ units > 0)
                   THEN <<khong \o <<SP>> \o tram>>
                   ELSE <<>>
        p2 == IF tens > 1 THEN
                  <<VCUnits(tens) \o <<SP>> \o muoi>> \o
                  (IF units = 1 THEN <<mot21>>
                   ELSE IF units = 4 THEN <<tu>>
                   ELSE IF units = 5 THEN <<lam>>
                   ELSE IF units > 0 THEN <<VCUnits(units)>>
                   ELSE <<>>)
              ELSE IF tens = 1 THEN
                  <<muoi10>> \o
                  (IF units = 5 THEN <<lam>>
                   ELSE IF units > 0 THEN <<VCUnits(units)>>
                   ELSE <<>>)
              ELSE IF tens = 0 /\ units > 0 THEN
                  (IF hundreds > 0 THEN <<le>> ELSE <<>>) \o <<VCUnits(units)>>
              ELSE <<>>
    IN  Join(p1 \o p2, <<SP>>)

normalizeVietnamese(text) ==
    LET words == Fields(text)
        norm(i) ==
            IF /\ words[i] = mot
               /\ i - 1 > 0
               /\ i - 1 < Len(words) - 1
               /\ HasSuffix(words[i - 1], muoi10)
               /\ words[i - 1] # muoi10
            THEN mot21
            ELSE words[i]
    IN  Join([i \in 1..Len(words) |-> norm(i)], <<SP>>)

RECURSIVE VCGroupLoop(_, _, _)
\* for i, group := range groups { ... }; i of the code is i - 1 here
VCGroupLoop(parts, groups, i) ==
    IF i > Len(groups) THEN parts
    ELSE
        LET groupCount == Len(groups)
            group      == groups[i]
            scaleIndex == groupCount - (i - 1) - 1
            groupText  == convertThreeDigitGroup(group, scaleIndex, i - 1 = 0)
        IN  IF group = 0 /\ i - 1 # groupCount - 1
            THEN VCGroupLoop(parts, groups, i + 1)
            ELSE IF groupText # <<>> /\ group # 0 THEN
                VCGroupLoop(
                    Append(parts,
                        IF scaleIndex > 0 /\ scaleIndex < Len(VCScales)
                        THEN groupText \o <<SP>> \o VCScales[scaleIndex + 1]
                        ELSE groupText),
                    groups, i + 1)
            ELSE IF group = 0 /\ i - 1 = groupCount - 1 THEN
                VCGroupLoop(IF Len(parts) = 0 THEN Append(parts, khong) ELSE parts,
                            groups, i + 1)
            ELSE VCGroupLoop(parts, groups, i + 1)

VCWithCurrency(result, cur) ==
    IF cur # <<>> THEN result \o <<SP>> \o cur ELSE result

VCConvertWithCurrency(num, cur) ==
    IF LtZero(num) THEN Fail(ErrNegative)
    ELSE IF Gt(num, MaxNumber) THEN Fail(ErrTooLarge)
    ELSE IF IsZero(num) THEN Ok(VCWithCurrency(khong, cur), <<>>)
    ELSE
        LET groups == splitIntoGroups(num, <<>>) IN
        IF Len(groups) = 1 /\ groups[1] < 10
        THEN Ok(VCWithCurrency(VCUnits(groups[1]), cur), <<>>)
        ELSE
            LET parts == VCGroupLoop(<<>>, groups, 1) IN
            IF Len(parts) = 0 THEN Ok(VCWithCurrency(khong, cur), <<>>)
            ELSE Ok(VCWithCurrency(normalizeVietnamese(Join(parts, <<SP>>)), cur),
                    <<>>)

---------------------------------------------------------------------------
(* ZeroAllocConverter: tables and the group cache                          *)

ZAUnits(k) ==
    << <<>>, mot, hai, ba, bon, nam, sau, bay, tam, chin,
       muoi10, muoi10 \o <<SP>> \o mot, muoi10 \o <<SP>> \o hai,
       muoi10 \o <<SP>> \o ba, muoi10 \o <<SP>> \o bon,
       muoi10 \o <<SP>> \o nam, muoi10 \o <<SP>> \o sau,
       muoi10 \o <<SP>> \o bay, muoi10 \o <<SP>> \o tam,
       muoi10 \o <<SP>> \o chin >>[k + 1]

ZATens(t) ==
    << <<>>, muoi10, hai \o <<SP>> \o muoi, ba \o <<SP>> \o muoi,
       bon \o <<SP>> \o muoi, nam \o <<SP>> \o muoi, sau \o <<SP>> \o muoi,
       bay \o <<SP>> \o muoi, tam \o <<SP>> \o muoi,
       chin \o <<SP>> \o muoi >>[t + 1]

ZAScales ==
    << <<>>, nghin, trieu, ty, nghin \o <<SP>> \o ty, trieu \o <<SP>> \o ty,
       ty \o <<SP>> \o ty, nghin \o <<SP>> \o ty \o <<SP>> \o ty >>

\* "số âm không được hỗ trợ"
ZANegativeText ==
    <<"s", "o^'", SP, "a^", "m", SP>> \o khong \o
    <<SP, "dd", "u+", "o+.", "c", SP, "h", "o^~", SP, "t", "r", "o+.">>

\* "không đồng"
ZAZeroText == khong \o <<SP>> \o dong

\* joinStrings(parts): the parts joined with single spaces
joinStrings(parts) ==
    IF Len(parts) = 0 THEN <<>>
    ELSE IF Len(parts) = 1 THEN parts[1]
    ELSE Join(parts, <<SP>>)

\* computeThreeDigits, the word chosen for a non-zero ones digit
ZAOnesWord(tens, ones) ==
    IF ones = 1 /\ tens > 1 THEN mot21
    ELSE IF ones = 4 /\ tens > 1 THEN tu
    ELSE IF ones = 5 /\ tens > 0 THEN lam
    ELSE ZAUnits(ones)

computeThreeDigits(n) ==
    IF n = 0 THEN <<>>
    ELSE
    LET hundreds  == n \div 100
        remainder == n % 100
        tens      == remainder \div 10
        ones      == remainder % 10
        p1 == IF hundreds > 0 THEN <<ZAUnits(hundreds), tram>> ELSE <<>>
        p2 == IF remainder > 0 THEN
                  IF remainder < 20 /\ remainder >= 10 THEN
                      IF hundreds > 0 /\ remainder < 20 THEN
                          IF remainder = 10 THEN <<le, muoi10>>
                          ELSE <<le, ZAUnits(remainder)>>
                      ELSE <<ZAUnits(remainder)>>
                  ELSE
                      (IF tens > 0 THEN
                          (IF hundreds > 0 /\ tens = 0 /\ ones > 0
                           THEN <<le>> ELSE <<>>) \o
                          (IF tens > 0 THEN <<ZATens(tens)>> ELSE <<>>)
                       ELSE <<>>) \o
                      (IF ones > 0 THEN <<ZAOnesWord(tens, ones)>> ELSE <<>>)
              ELSE <<>>
    IN  joinStrings(p1 \o p2)

\* precomputeHundreds: hundredsCache[i] = computeThreeDigits(i), 0 <= i < 1000
hundredsCache == [i \in 0..999 |-> computeThreeDigits(i)]

---------------------------------------------------------------------------
(* ZeroAllocConverter.Convert: scratch pads, byte level                    *)

\* len(c.scratchPads)
NumPads == 64
\* cap of each pad: make([]byte, 0, 64)
PadCap == 64

RuneBytes(r) == [k \in 1..Utf8Len(r) |-> <<r, k>>]

RECURSIVE Bytes(_)
\* the UTF-8 bytes of a string; <<r, k>> is byte k of code point r
Bytes(s) ==
    IF s = <<>> THEN <<>>
    ELSE IF Len(s) = 1 THEN RuneBytes(s[1])
    ELSE LET h == Len(s) \div 2
         IN  Bytes(SubSeq(s, 1, h)) \o Bytes(SubSeq(s, h + 1, Len(s)))

IsFirstByte(b) == b[2] = 1

\* the code points a byte sequence reads as (a byte that is not the first of
\* its code point reads as part of the one before it)
Decode(bs) ==
    LET first == SelectSeq(bs, IsFirstByte)
    IN  [i \in 1..Len(first) |-> first[i][1]]

RECURSIVE ZAPartsLoop(_, _, _)
\* for n > 0 && scaleIndex < len(c.scales) { ... }
ZAPartsLoop(n, scaleIndex, parts) ==
    IF GtZero(n) /\ scaleIndex < Len(ZAScales) THEN
        LET group     == Mod1000(n)
            groupText == hundredsCache[group]
        IN  ZAPartsLoop(
                Div1000(n), scaleIndex + 1,
                IF group > 0 /\ groupText # <<>>
                THEN Append(parts,
                        IF scaleIndex > 0
                        THEN groupText \o <<SP>> \o ZAScales[scaleIndex + 1]
                        ELSE groupText)
                ELSE parts)
    ELSE parts

RECURSIVE ZASumLen(_)
ZASumLen(parts) ==
    IF parts = <<>> THEN 0 ELSE len(Head(parts)) + ZASumLen(Tail(parts))

\* totalLen: the part lengths, one per separator, and 5 for " đồng"
ZATotalLen(parts) == ZASumLen(parts) + (Len(parts) - 1) + 5

\* The appends of the build loop, in order: parts[i] and ' ' for
\* i = len(parts)-1 .. 0, then " đồng".
ZAChunks(parts) ==
    LET n == Len(parts)
        piece(k) == IF k % 2 = 1 THEN parts[n - (k - 1) \div 2] ELSE <<SP>>
    IN  [k \in 1..(2 * n - 1) |-> piece(k)] \o << <<SP>> \o dong >>

\* A []byte value: backed by pad number pad (pad >= 0) or by an array of its
\* own (pad = -1, content in heap); len is its length.
PadSlice(i) == [pad |-> i, len |-> 0, heap |-> <<>>]
HeapSlice == [pad |-> -1, len |-> 0, heap |-> <<>>]

\* if cap(scratch) < totalLen { scratch = make([]byte, 0, totalLen+64) }
ZAEnsureCap(scratch, totalLen) ==
    IF scratch.pad >= 0 /\ PadCap < totalLen THEN HeapSlice ELSE scratch

\* the bytes of array a with bs written at offset off (0-based)
WriteAt(a, off, bs) ==
    SubSeq(a, 1, off) \o bs \o SubSeq(a, off + Len(bs) + 1, Len(a))

\* scratch = append(scratch, chunk...): in place while the capacity lasts,
\* otherwise into a new array that holds a copy.  Gives the new slice and pads.
ZAAppend(scratch, pads, chunk) ==
    LET bs == Bytes(chunk) IN
    IF scratch.pad >= 0 THEN
        IF scratch.len + Len(bs) <= PadCap THEN
            [scratch |-> [scratch EXCEPT !.len = @ + Len(bs)],
             pads    |-> [pads EXCEPT ![scratch.pad] = WriteAt(@, scratch.len, bs)]]
        ELSE
            [scratch |-> [pad |-> -1, len |-> scratch.len + Len(bs),
                          heap |-> SubSeq(pads[scratch.pad], 1, scratch.len) \o bs],
             pads    |-> pads]
    ELSE
        [scratch |-> [scratch EXCEPT !.len = @ + Len(bs), !.heap = @ \o bs],
         pads    |-> pads]

\* The bytes a string value reads: unsafeBytesToString shares the slice's array.
StringBytes(str, pads) ==
    IF str.pad >= 0 THEN SubSeq(pads[str.pad], 1, str.len) ELSE str.heap

RECURSIVE ZAAppendAll(_, _, _)
\* the build loop run to its end by one call
ZAAppendAll(scratch, pads, chunks) ==
    IF chunks = <<>> THEN [scratch |-> scratch, pads |-> pads]
    ELSE LET r == ZAAppend(scratch, pads, Head(chunks))
         IN  ZAAppendAll(r.scratch, r.pads, Tail(chunks))

\* A string constant of the program: not backed by any scratch pad.
ConstString(text) ==
    [pad |-> -1, len |-> len(text), heap |-> Bytes(text)]

\* getScratchBuffer's choice of pad: int(c.padIndex) % len(c.scratchPads)
PadOf(idx) == idx % NumPads

\* One whole Convert(n) run without interruption from padIdx and pads:
\* the string returned, and the converter's padIndex and pads afterwards.
ZAConvert(n, padIdx, pads) ==
    IF IsZero(n) THEN
        [str |-> ConstString(ZAZeroText), padIndex |-> padIdx, pads |-> pads]
    ELSE IF LtZero(n) THEN
        [str |-> ConstString(ZANegativeText), padIndex |-> padIdx, pads |-> pads]
    ELSE
        LET scratch == PadSlice(PadOf(padIdx))
            parts   == ZAPartsLoop(n, 0, <<>>)
        IN  IF Len(parts) = 0 THEN
                [str |-> ConstString(ZAZeroText), padIndex |-> padIdx + 1,
                 pads |-> pads]
            ELSE
                LET r == ZAAppendAll(ZAEnsureCap(scratch, ZATotalLen(parts)),
                                     pads, ZAChunks(parts))
                IN  [str |-> r.scratch, padIndex |-> padIdx + 1,
                     pads |-> r.pads]

---------------------------------------------------------------------------
(* Inputs of the sequential harness                                        *)

\* Group values the multi-group inputs are built from: the first NumSamples
\* entries of SampleSeq.
SampleSeq == <<0, 1, 21, 24, 115, 999, 10, 504>>
NumSamples == 4
Samples == {SampleSeq[k] : k \in 1..NumSamples}

\* The number whose base-1000 groups are gs[1] (lowest) .. gs[Len(gs)].
GroupOr0(gs, k) == IF k <= Len(gs) THEN gs[k] ELSE 0
FromGroups(gs) ==
    I64(GroupOr0(gs, 4) + 1000 * GroupOr0(gs, 5) + 1000000 * GroupOr0(gs, 6),
        GroupOr0(gs, 1) + 1000 * GroupOr0(gs, 2) + 1000000 * GroupOr0(gs, 3))

\* Every group value alone, below a leading group, and as the leading group
\* of a number of two groups; the sample values in every position of numbers
\* of three to five groups; the bounds of the domain and numbers outside it.
Inputs ==
    {FromGroups(<<g>>) : g \in 0..999}
    \cup {FromGroups(<<g, 1>>) : g \in 0..999}
    \cup {FromGroups(<<0, g>>) : g \in 1..999}
    \cup {FromGroups(gs) : gs \in {x \in [1..3 -> Samples] : x[3] # 0}}
    \cup {FromGroups(gs) : gs \in {x \in [1..4 -> Samples] : x[4] # 0}}
    \cup {FromGroups(gs) : gs \in {x \in [1..5 -> Samples] : x[5] # 0}}
    \cup {FromGroups(<<h, 0, 0, 0, 0, 1>>) : h \in Samples}
    \cup {MaxNumber, I64(1000000, 0), I64(2147483, 647000999),
          Neg(0, 1), Neg(0, 1001), Neg(1000000, 0)}
    \cup {I64(0, 123456789), I64(2, 355200847)}

Currencies == {<<>>, dong}

NoStr == [called |-> FALSE, text |-> <<>>, str |-> HeapSlice]

---------------------------------------------------------------------------
(* Sequential harness: one input; the three converters are applied to it   *)
(* once each, in the order Turbo, vietnameseConverter, ZeroAlloc.          *)

concVars == <<tcall, started, returned, poolOps, zcall, zstarted, zresults>>

\* State used only by the other specifications of this module, and its
\* value where it is not in use.
curVars == <<plainOut>>
svcVars == <<metrics, scall, sdone, peakLeft>>
cacheVars == <<conv>>
apiVars == <<handler>>
netVars == <<connPool, connState>>
otherVars == <<curVars, svcVars, cacheVars, apiVars, netVars>>
InitOther ==
    /\ plainOut = NoOut
    /\ metrics = [totalRequests |-> 0, totalLatencyNs |-> 0,
                  errorCount |-> 0, peakLatencyNs |-> 0]
    /\ scall = <<>>
    /\ sdone = <<>>
    /\ peakLeft = {}
    /\ conv = <<>>
    /\ handler = <<>>
    /\ connPool = [conns |-> <<>>]
    /\ connState = <<>>

Init ==
    /\ number \in Inputs
    /\ currency \in Currencies
    /\ turboOut = NoOut
    /\ vcOut = NoOut
    /\ zaOut = NoStr
    /\ bufferPool = EmptyBag
    /\ tcall = <<>>
    /\ started = 0
    /\ returned = {}
    /\ poolOps = [gets |-> 0, puts |-> 0]
    /\ padIndex = 0
    /\ scratchPads = [i \in 0..(NumPads - 1) |-> <<>>]
    /\ zcall = <<>>
    /\ zstarted = 0
    /\ zresults = {}
    /\ InitOther

\* The builders sync.Pool.Get may hand out: one at rest in the pool, or a new
\* one from New (empty, capacity 100).
PoolChoices(pool) == BagToSet(pool) \cup {<<>>}
PoolAfterGet(pool, sb) ==
    IF BagIn(sb, pool) THEN pool (-) SetToBag({sb}) ELSE pool
PoolPut(pool, sb) == pool (+) SetToBag({sb})

\* TurboVietnameseConverter.ConvertWithCurrency(number, currency), whole call
TurboConvertWithCurrency ==
    /\ ~turboOut.called
    /\ LET early == TurboEarly(number, currency) IN
       IF early.called THEN
           /\ turboOut' = early
           /\ UNCHANGED bufferPool
       ELSE
           \E sb \in PoolChoices(bufferPool) :
               LET st == TurboFill(sb, number, currency) IN
               /\ turboOut' = Ok(TurboNormalize(st.sb), st.marks)
               /\ bufferPool' = PoolPut(PoolAfterGet(bufferPool, sb), st.sb)
    /\ UNCHANGED <<number, currency, vcOut, zaOut, padIndex, scratchPads,
                   concVars, otherVars>>

\* vietnameseConverter.ConvertWithCurrency(number, currency), whole call
VietnameseConvertWithCurrency ==
    /\ turboOut.called
    /\ ~vcOut.called
    /\ vcOut' = VCConvertWithCurrency(number, currency)
    /\ UNCHANGED <<number, currency, turboOut, zaOut, bufferPool, padIndex,
                   scratchPads, concVars, otherVars>>

\* ZeroAllocConverter.Convert(number), whole call
ZeroAllocConvert ==
    /\ vcOut.called
    /\ ~zaOut.called
    /\ LET r == ZAConvert(number, padIndex, scratchPads) IN
       /\ zaOut' = [called |-> TRUE,
                    text |-> Decode(StringBytes(r.str, r.pads)),
                    str |-> r.str]
       /\ padIndex' = r.padIndex
       /\ scratchPads' = r.pads
    /\ UNCHANGED <<number, currency, turboOut, vcOut, bufferPool, concVars, otherVars>>

Next ==
    \/ TurboConvertWithCurrency
    \/ VietnameseConvertWithCurrency
    \/ ZeroAllocConvert

Spec == Init /\ [][Next]_vars

---------------------------------------------------------------------------
(* Concurrent callers of one TurboVietnameseConverter (SpecPool)           *)

\* goroutines, and calls started in one run
NumProcs == 2
MaxCalls == 3
Procs == 1..NumProcs

PoolNumbers == {I64(0, 0), I64(0, 21), I64(0, 1001), I64(1000000, 0)}

TIdle == [pc |-> "idle", number |-> Zero, currency |-> <<>>, sb |-> <<>>,
          used |-> FALSE]

harnessVars == <<number, currency, turboOut, vcOut, zaOut>>
zaVars == <<padIndex, scratchPads, zcall, zstarted, zresults>>

InitPool ==
    /\ number = Zero
    /\ currency = <<>>
    /\ turboOut = NoOut
    /\ vcOut = NoOut
    /\ zaOut = NoStr
    /\ bufferPool = EmptyBag
    /\ tcall = [p \in Procs |-> TIdle]
    /\ started = 0
    /\ returned = {}
    /\ poolOps = [gets |-> 0, puts |-> 0]
    /\ padIndex = 0
    /\ scratchPads = [i \in 0..(NumPads - 1) |-> <<>>]
    /\ zcall = <<>>
    /\ zstarted = 0
    /\ zresults = {}
    /\ InitOther

\* A finished call: its arguments, what it returned, and whether the builder
\* it was given had been used before.
TResult(n, c, text, err, used) ==
    [number |-> n, currency |-> c, text |-> text, err |-> err, used |-> used]

\* ConvertWithCurrency(n, c) is entered by goroutine p: the early returns, or
\* c.bufferPool.Get()
TurboCall(p, n, c) ==
    /\ tcall[p].pc = "idle"
    /\ started < MaxCalls
    /\ started' = started + 1
    /\ LET early == TurboEarly(n, c) IN
       IF early.called THEN
           /\ returned' = returned \cup
                  {TResult(n, c, early.text, early.err, FALSE)}
           /\ UNCHANGED <<tcall, bufferPool, poolOps>>
       ELSE
           \E sb \in PoolChoices(bufferPool) :
               /\ tcall' = [tcall EXCEPT ![p] =
                      [pc |-> "hold", number |-> n, currency |-> c,
                       sb |-> sb, used |-> sb # <<>>]]
               /\ bufferPool' = PoolAfterGet(bufferPool, sb)
               /\ poolOps' = [poolOps EXCEPT !.gets = @ + 1]
               /\ UNCHANGED returned
    /\ UNCHANGED <<harnessVars, zaVars, otherVars>>

\* sb.Reset() and the writes into the builder goroutine p holds
TurboRender(p) ==
    /\ tcall[p].pc = "hold"
    /\ tcall' = [tcall EXCEPT
                    ![p].sb = TurboFill(@, tcall[p].number, tcall[p].currency).sb,
                    ![p].pc = "filled"]
    /\ UNCHANGED <<bufferPool, started, returned, poolOps, harnessVars, zaVars,
                   otherVars>>

\* result := sb.String(), the normalization, the deferred Put, return
TurboReturn(p) ==
    /\ tcall[p].pc = "filled"
    /\ returned' = returned \cup
           {TResult(tcall[p].number, tcall[p].currency,
                    TurboNormalize(tcall[p].sb), "", tcall[p].used)}
    /\ bufferPool' = PoolPut(bufferPool, tcall[p].sb)
    /\ poolOps' = [poolOps EXCEPT !.puts = @ + 1]
    /\ tcall' = [tcall EXCEPT ![p] = TIdle]
    /\ UNCHANGED <<started, harnessVars, zaVars, otherVars>>

\* sync.Pool drops a builder at rest (garbage collection)
PoolDrop ==
    /\ \E sb \in BagToSet(bufferPool) :
           bufferPool' = bufferPool (-) SetToBag({sb})
    /\ UNCHANGED <<tcall, started, returned, poolOps, harnessVars, zaVars,
                   otherVars>>

NextPool ==
    \/ \E p \in Procs, n \in PoolNumbers, c \in Currencies : TurboCall(p, n, c)
    \/ \E p \in Procs : TurboRender(p)
    \/ \E p \in Procs : TurboReturn(p)
    \/ PoolDrop

SpecPool == InitPool /\ [][NextPool]_vars

---------------------------------------------------------------------------
(* Concurrent callers of one ZeroAllocConverter (SpecZA)                   *)
(*                                                                         *)
(* getScratchBuffer reads padIndex, then increments it with an ordinary    *)
(* load and store; neither is atomic, so the steps of different goroutines *)
(* interleave.  Each append of the build loop is one step.                 *)

ZANumbers == {Zero, Neg(0, 1), I64(0, 1), I64(0, 15)}

\* Convert calls started in one run
MaxZACalls == 2

ZIdle == [pc |-> "idle", n |-> Zero, index |-> 0, tmp |-> 0,
          scratch |-> HeapSlice, chunks |-> <<>>]

\* A string handed to a caller: the string value and the bytes it read when
\* it was returned.
ZResult(str, pads) == [str |-> str, bytes |-> StringBytes(str, pads)]

turboVars == <<bufferPool, tcall, started, returned, poolOps>>

InitZA ==
    /\ number = Zero
    /\ currency = <<>>
    /\ turboOut = NoOut
    /\ vcOut = NoOut
    /\ zaOut = NoStr
    /\ bufferPool = EmptyBag
    /\ tcall = <<>>
    /\ started = 0
    /\ returned = {}
    /\ poolOps = [gets |-> 0, puts |-> 0]
    /\ padIndex = 0
    /\ scratchPads = [i \in 0..(NumPads - 1) |-> <<>>]
    /\ zcall = [p \in Procs |-> ZIdle]
    /\ zstarted = 0
    /\ zresults = {}
    /\ InitOther

\* Convert(n) is entered by goroutine p: the returns for 0 and for n < 0
ZACall(p, n) ==
    /\ zcall[p].pc = "idle"
    /\ zstarted < MaxZACalls
    /\ zstarted' = zstarted + 1
    /\ IF IsZero(n) THEN
           /\ zresults' = zresults \cup
                  {ZResult(ConstString(ZAZeroText), scratchPads)}
           /\ UNCHANGED zcall
       ELSE IF LtZero(n) THEN
           /\ zresults' = zresults \cup
                  {ZResult(ConstString(ZANegativeText), scratchPads)}
           /\ UNCHANGED zcall
       ELSE
           /\ zcall' = [zcall EXCEPT ![p] = [ZIdle EXCEPT !.pc = "getidx",
                                                          !.n = n]]
           /\ UNCHANGED zresults
    /\ UNCHANGED <<padIndex, scratchPads, harnessVars, turboVars, otherVars>>

\* getScratchBuffer: index := int(c.padIndex) % len(c.scratchPads)
ZAGetIndex(p) ==
    /\ zcall[p].pc = "getidx"
    /\ zcall' = [zcall EXCEPT ![p].index = PadOf(padIndex), ![p].pc = "load"]
    /\ UNCHANGED <<padIndex, scratchPads, zstarted, zresults, harnessVars,
                   turboVars, otherVars>>

\* getScratchBuffer: c.padIndex++, the load
ZALoad(p) ==
    /\ zcall[p].pc = "load"
    /\ zcall' = [zcall EXCEPT ![p].tmp = padIndex, ![p].pc = "store"]
    /\ UNCHANGED <<padIndex, scratchPads, zstarted, zresults, harnessVars,
                   turboVars, otherVars>>

\* getScratchBuffer: c.padIndex++, the store; return c.scratchPads[index];
\* then scratch = scratch[:0], the parts loop, totalLen and the capacity test
ZAStore(p) ==
    /\ zcall[p].pc = "store"
    /\ padIndex' = zcall[p].tmp + 1
    /\ LET parts == ZAPartsLoop(zcall[p].n, 0, <<>>) IN
       IF Len(parts) = 0 THEN
           /\ zresults' = zresults \cup
                  {ZResult(ConstString(ZAZeroText), scratchPads)}
           /\ zcall' = [zcall EXCEPT ![p] = ZIdle]
       ELSE
           /\ zcall' = [zcall EXCEPT
                  ![p].scratch = ZAEnsureCap(PadSlice(zcall[p].index),
                                             ZATotalLen(parts)),
                  ![p].chunks = ZAChunks(parts),
                  ![p].pc = "append"]
           /\ UNCHANGED zresults
    /\ UNCHANGED <<scratchPads, zstarted, harnessVars, turboVars, otherVars>>

\* one scratch = append(scratch, ...) of the build loop
ZAAppendStep(p) ==
    /\ zcall[p].pc = "append"
    /\ LET r == ZAAppend(zcall[p].scratch, scratchPads, Head(zcall[p].chunks))
           rest == Tail(zcall[p].chunks)
       IN  /\ scratchPads' = r.pads
           /\ zcall' = [zcall EXCEPT
                  ![p].scratch = r.scratch,
                  ![p].chunks = rest,
                  ![p].pc = IF rest = <<>> THEN "ret" ELSE "append"]
    /\ UNCHANGED <<padIndex, zstarted, zresults, harnessVars, turboVars, otherVars>>

\* return unsafeBytesToString(scratch); returnScratchBuffer does nothing
ZAReturn(p) ==
    /\ zcall[p].pc = "ret"
    /\ zresults' = zresults \cup {ZResult(zcall[p].scratch, scratchPads)}
    /\ zcall' = [zcall EXCEPT ![p] = ZIdle]
    /\ UNCHANGED <<padIndex, scratchPads, zstarted, harnessVars, turboVars, otherVars>>

NextZA ==
    \/ \E p \in Procs, n \in ZANumbers : ZACall(p, n)
    \/ \E p \in Procs : ZAGetIndex(p)
    \/ \E p \in Procs : ZALoad(p)
    \/ \E p \in Procs : ZAStore(p)
    \/ \E p \in Procs : ZAAppendStep(p)
    \/ \E p \in Procs : ZAReturn(p)

SpecZA == InitZA /\ [][NextZA]_vars

---------------------------------------------------------------------------
(* The same number with a currency and with the empty currency             *)
(* (SpecCurrency): ConvertWithCurrency(number, currency), then             *)
(* ConvertWithCurrency(number, "") on the same converter.                  *)

\* currencies a caller may pass: the request's currency field is free text
motLuong == mot \o <<SP, "l", "u+", "o+.", "n", "g">>
usd == <<"U", "S", "D">>
CurCurrencies == {<<>>, dong, usd, motLuong}

CurNumbers ==
    {I64(0, g) : g \in 0..130}
    \cup {I64(0, 1001), I64(0, 20000), I64(0, 30000000), I64(0, 123456789),
          MaxNumber, I64(1000000, 0), Neg(0, 1)}

InitCurrency ==
    /\ number \in CurNumbers
    /\ currency \in CurCurrencies
    /\ turboOut = NoOut
    /\ vcOut = NoOut
    /\ zaOut = NoStr
    /\ bufferPool = EmptyBag
    /\ tcall = <<>>
    /\ started = 0
    /\ returned = {}
    /\ poolOps = [gets |-> 0, puts |-> 0]
    /\ padIndex = 0
    /\ scratchPads = [i \in 0..(NumPads - 1) |-> <<>>]
    /\ zcall = <<>>
    /\ zstarted = 0
    /\ zresults = {}
    /\ InitOther

\* TurboVietnameseConverter.ConvertWithCurrency(number, ""), whole call
TurboConvertPlain ==
    /\ turboOut.called
    /\ ~plainOut.called
    /\ LET early == TurboEarly(number, <<>>) IN
       IF early.called THEN
           /\ plainOut' = early
           /\ UNCHANGED bufferPool
       ELSE
           \E sb \in PoolChoices(bufferPool) :
               LET st == TurboFill(sb, number, <<>>) IN
               /\ plainOut' = Ok(TurboNormalize(st.sb), st.marks)
               /\ bufferPool' = PoolPut(PoolAfterGet(bufferPool, sb), st.sb)
    /\ UNCHANGED <<number, currency, turboOut, vcOut, zaOut, padIndex,
                   scratchPads, concVars, svcVars, cacheVars, apiVars,
                   netVars>>

NextCurrency ==
    \/ TurboConvertWithCurrency
    \/ TurboConvertPlain

SpecCurrency == InitCurrency /\ [][NextCurrency]_vars

---------------------------------------------------------------------------
(* PerfectService: concurrent clients of one service (SpecSvc)             *)
(*                                                                         *)
(* Each step is one access to shared state (an atomic operation on the     *)
(* metrics, or the Convert call of handleConvert) together with the local  *)
(* code around it.  The FastResponseWriter and the response buffer a call  *)
(* takes from responsePool are held by that call alone; their fields are   *)
(* kept in the call's record.  The steps inside Convert are those of       *)
(* SpecZA; here the call is one step.  The request and the response are    *)
(* kept in the call's record until the handler has returned to ServeHTTP   *)
(* and the next step is taken.                                             *)

\* clients, calls per client, and the largest latency (in ns) a call measures
NumClients == 2
CallsPerClient == 2
MaxLatency == 2
Clients == 1..NumClients
Latencies == 1..MaxLatency

\* atomic.AddUint64 with every increment after the first lost
AddUint64Lossy(v, delta) == IF v > 0 THEN v ELSE v + delta

\* atomic.AddUint64 (the counters stay far below 2^64 here)
AddUint64(v, delta) == v + delta

\* the decimal digits of a natural number below 10^9, and of an int64
RECURSIVE DecimalNat(_)
DecimalNat(k) ==
    IF k < 10 THEN <<<<"0", "1", "2", "3", "4", "5", "6", "7", "8", "9">>[k + 1]>>
    ELSE DecimalNat(k \div 10) \o DecimalNat(k % 10)
DecimalPad9(k) ==
    LET d == DecimalNat(k)
    IN  [i \in 1..(9 - Len(d)) |-> "0"] \o d
DecimalI64(n) ==
    (IF n.neg THEN <<"-">> ELSE <<>>)
    \o (IF n.hi > 0 THEN DecimalNat(n.hi) \o DecimalPad9(n.lo)
        ELSE DecimalNat(n.lo))

\* the body a client sends for the number n: {"number":n}
NumberKey == <<"\"", "n", "u", "m", "b", "e", "r", "\"">>
JSONBody(n) == <<"{">> \o NumberKey \o <<":">> \o DecimalI64(n) \o <<"}">>

\* the numbers clients ask for, and bodies without a number
SvcNumbers == {I64(0, 21), Neg(0, 5), I64(1000000, 0)}
BodyNoNumber == <<"{", "}">>
BodyShortKey == <<"{", "\"", "a", "b", "\"", ":", "1", "}">>

\* paths, as code points
PathConvert == <<"/", "c", "o", "n", "v", "e", "r", "t">>
PathHealth == <<"/", "h", "e", "a", "l", "t", "h">>
PathMetrics == <<"/", "m", "e", "t", "r", "i", "c", "s">>
PathRoot == <<"/">>
PathStaticPrefix == <<"/", "s", "t", "a", "t", "i", "c", "/">>
PathStaticFile == PathStaticPrefix \o <<"a", ".", "j", "s">>

\* A request: method, path, body, and the number the client meant (sent).
Req(m, path, body, hasNum, n) ==
    [method |-> m, path |-> path, body |-> body, hasNumber |-> hasNum,
     sent |-> n]
Requests ==
    {Req("POST", PathConvert, JSONBody(n), TRUE, n) : n \in SvcNumbers}
    \cup {Req("POST", PathConvert, BodyNoNumber, FALSE, Zero),
          Req("POST", PathConvert, BodyShortKey, FALSE, Zero),
          Req("GET", PathHealth, <<>>, FALSE, Zero),
          Req("GET", PathMetrics, <<>>, FALSE, Zero),
          Req("GET", PathRoot, <<>>, FALSE, Zero),
          Req("GET", PathStaticFile, <<>>, FALSE, Zero),
          Req("GET", PathConvert, <<>>, FALSE, Zero)}

\* parseIntFromBytes: result = result*10 + int64(b-'0') over the leading
\* digits (exact below 10^17; the requests here stay below it)
DigitChars == {"0", "1", "2", "3", "4", "5", "6", "7", "8", "9"}
DigitValue(ch) ==
    CHOOSE d \in 0..9 : DecimalNat(d) = <<ch>>
Mul10Add(r, d) ==
    I64(r.hi * 10 + (r.lo \div 100000000), (r.lo % 100000000) * 10 + d)
RECURSIVE parseIntLoop(_, _, _)
parseIntLoop(data, k, result) ==
    IF k > Len(data) \/ data[k] \notin DigitChars THEN result
    ELSE parseIntLoop(data, k + 1, Mul10Add(result, DigitValue(data[k])))
parseIntFromBytes(data) ==
    IF Len(data) = 0 THEN [panic |-> FALSE, err |-> "empty data", number |-> Zero]
    ELSE [panic |-> FALSE, err |-> "", number |-> parseIntLoop(data, 1, Zero)]

\* extractNumberFromJSON.  The loop is "for i, b := range data", so the
\* "i += 7" of case 0 does not move the scan; data[i:i+8] panics when it
\* reaches past the capacity of data, which is the body's length.
\* Positions are 1-based here: i of the code is k - 1.
RECURSIVE extractLoop(_, _, _)
extractLoop(data, k, state) ==
    IF k > Len(data) THEN
        [panic |-> FALSE, err |-> "number not found", number |-> Zero]
    ELSE
        LET b == data[k] IN
        IF state = 0 THEN
            IF b = "\"" /\ (k - 1) + 6 < Len(data) THEN
                IF (k - 1) + 8 > Len(data) THEN
                    [panic |-> TRUE, err |-> "", number |-> Zero]
                ELSE IF SubSeq(data, k, k + 7) = NumberKey
                THEN extractLoop(data, k + 1, 1)
                ELSE extractLoop(data, k + 1, 0)
            ELSE extractLoop(data, k + 1, 0)
        ELSE IF state = 1 THEN
            extractLoop(data, k + 1, IF b = ":" THEN 2 ELSE 1)
        ELSE
            IF b \in DigitChars THEN
                LET ends == {j \in k..Len(data) : data[j] \notin DigitChars}
                IN  IF ends # {}
                    THEN parseIntFromBytes(SubSeq(data, k, Min(ends) - 1))
                    ELSE parseIntFromBytes(SubSeq(data, k, Len(data)))
            ELSE extractLoop(data, k + 1, 2)
extractNumberFromJSON(data) == extractLoop(data, 1, 0)

\* parseNumberFromBody: one Read of the body, then extractNumberFromJSON;
\* an empty body reads 0 bytes with io.EOF
parseNumberFromBody(r) ==
    IF Len(r.body) = 0
    THEN [panic |-> FALSE, err |-> "EOF", number |-> Zero]
    ELSE extractNumberFromJSON(r.body)

\* The case of the routing switch a request takes.
Route(r) ==
    IF r.method = "POST" /\ r.path = PathConvert THEN "convert"
    ELSE IF r.method = "GET" /\ r.path = PathHealth THEN "health"
    ELSE IF r.method = "GET" /\ r.path = PathMetrics THEN "metrics"
    ELSE IF r.method = "GET" /\ r.path = PathRoot THEN "index"
    ELSE IF r.method = "GET"
            /\ HasPrefixAt(r.path, 1, PathStaticPrefix) THEN "static"
    ELSE "default"

\* What a call wrote to its client: the status, and for /convert the number
\* and the text of the JSON response, for /metrics the four figures.
NoResp == [written |-> FALSE]
Resp(status) == [written |-> TRUE, status |-> status, kind |-> "plain"]
ConvertResp(n, text) ==
    [written |-> TRUE, status |-> 200, kind |-> "convert", number |-> n,
     vietnamese |-> text]
MetricsResp(requests, totalLatency, errors, peak) ==
    [written |-> TRUE, status |-> 200, kind |-> "metrics",
     requests |-> requests,
     avg_latency_ns |-> IF requests > 0 THEN totalLatency \div requests ELSE 0,
     peak_latency_ns |-> peak, errors |-> errors]

SIdle == [pc |-> "idle", req |-> Req("", <<>>, <<>>, FALSE, Zero),
          resp |-> NoResp, latency |-> 0, current |-> 0,
          requests |-> 0, totalLatency |-> 0, errors |-> 0]

InitSvc ==
    /\ number = Zero
    /\ currency = <<>>
    /\ turboOut = NoOut
    /\ vcOut = NoOut
    /\ zaOut = NoStr
    /\ bufferPool = EmptyBag
    /\ tcall = <<>>
    /\ started = 0
    /\ returned = {}
    /\ poolOps = [gets |-> 0, puts |-> 0]
    /\ padIndex = 0
    /\ scratchPads = [i \in 0..(NumPads - 1) |-> <<>>]
    /\ zcall = <<>>
    /\ zstarted = 0
    /\ zresults = {}
    /\ plainOut = NoOut
    /\ metrics = [totalRequests |-> 0, totalLatencyNs |-> 0,
                  errorCount |-> 0, peakLatencyNs |-> 0]
    /\ scall = [p \in Clients |-> SIdle]
    /\ sdone = [p \in Clients |-> 0]
    /\ peakLeft = {}
    /\ conv = <<>>
    /\ handler = <<>>
    /\ connPool = [conns |-> <<>>]
    /\ connState = <<>>

convVars == <<padIndex, scratchPads>>
nonSvcVars == <<harnessVars, turboVars, zcall, zstarted, zresults, curVars,
                cacheVars, apiVars, netVars>>

\* the call of client p ends (return, or a panic unwinding ServeHTTP)
SvcEnd(p, call) ==
    /\ scall' = [scall EXCEPT ![p] = [SIdle EXCEPT !.resp = call.resp]]
    /\ sdone' = [sdone EXCEPT ![p] = @ + 1]

\* ServeHTTP is entered: start := time.Now(); atomic.AddUint64(&totalRequests, 1);
\* the writer is taken from the pool and reset
ServeHTTP(p, r) ==
    /\ scall[p].pc = "idle"
    /\ sdone[p] < CallsPerClient
    /\ metrics' = [metrics EXCEPT
                      !.totalRequests = AddUint64(@, 1)]
    /\ scall' = [scall EXCEPT ![p] = [SIdle EXCEPT !.pc = "route", !.req = r]]
    /\ UNCHANGED <<sdone, peakLeft, convVars, nonSvcVars>>

\* the routing switch with handleConvert: a parse error counts an error and
\* answers 400; otherwise Convert(number) and the JSON response
handleConvert(p) ==
    /\ scall[p].pc = "route"
    /\ Route(scall[p].req) = "convert"
    /\ LET parsed == parseNumberFromBody(scall[p].req) IN
       IF parsed.panic THEN
           /\ SvcEnd(p, [resp |-> NoResp])
           /\ UNCHANGED <<metrics, convVars>>
       ELSE IF parsed.err # "" THEN
           /\ metrics' = [metrics EXCEPT !.errorCount = AddUint64(@, 1)]
           /\ scall' = [scall EXCEPT ![p].pc = "latency",
                                     ![p].resp = Resp(400)]
           /\ UNCHANGED <<sdone, convVars>>
       ELSE
           LET c == ZAConvert(parsed.number, padIndex, scratchPads) IN
           /\ padIndex' = c.padIndex
           /\ scratchPads' = c.pads
           /\ scall' = [scall EXCEPT
                  ![p].pc = "latency",
                  ![p].resp = ConvertResp(parsed.number,
                                          Decode(StringBytes(c.str, c.pads)))]
           /\ UNCHANGED <<metrics, sdone>>
    /\ UNCHANGED <<peakLeft, nonSvcVars>>

\* the routing switch with handleHealth, handleIndex, handleStatic (which
\* answers 404 and returns to ServeHTTP), and the default case (404, return)
handleOther(p) ==
    /\ scall[p].pc = "route"
    /\ LET route == Route(scall[p].req) IN
       /\ route \in {"health", "index", "static", "default"}
       /\ IF route = "default"
          THEN SvcEnd(p, [resp |-> Resp(404)])
          ELSE /\ scall' = [scall EXCEPT
                      ![p].pc = "latency",
                      ![p].resp = Resp(IF route = "static" THEN 404 ELSE 200)]
               /\ UNCHANGED sdone
    /\ UNCHANGED <<metrics, peakLeft, convVars, nonSvcVars>>

\* handleMetrics: the four atomic loads, one step each, then the response
handleMetricsRequests(p) ==
    /\ scall[p].pc = "route"
    /\ Route(scall[p].req) = "metrics"
    /\ scall' = [scall EXCEPT ![p].pc = "mlatency",
                              ![p].requests = metrics.totalRequests]
    /\ UNCHANGED <<metrics, sdone, peakLeft, convVars, nonSvcVars>>

handleMetricsLatency(p) ==
    /\ scall[p].pc = "mlatency"
    /\ scall' = [scall EXCEPT ![p].pc = "merrors",
                              ![p].totalLatency = metrics.totalLatencyNs]
    /\ UNCHANGED <<metrics, sdone, peakLeft, convVars, nonSvcVars>>

handleMetricsErrors(p) ==
    /\ scall[p].pc = "merrors"
    /\ scall' = [scall EXCEPT ![p].pc = "mpeak",
                              ![p].errors = metrics.errorCount]
    /\ UNCHANGED <<metrics, sdone, peakLeft, convVars, nonSvcVars>>

handleMetricsPeak(p) ==
    /\ scall[p].pc = "mpeak"
    /\ scall' = [scall EXCEPT
           ![p].pc = "latency",
           ![p].resp = MetricsResp(scall[p].requests, scall[p].totalLatency,
                                   scall[p].errors, metrics.peakLatencyNs),
           ![p].requests = 0, ![p].totalLatency = 0, ![p].errors = 0]
    /\ UNCHANGED <<metrics, sdone, peakLeft, convVars, nonSvcVars>>

\* latency := time.Since(start).Nanoseconds();
\* atomic.AddUint64(&totalLatencyNs, uint64(latency))
RecordLatency(p, l) ==
    /\ scall[p].pc = "latency"
    /\ metrics' = [metrics EXCEPT !.totalLatencyNs = AddUint64(@, l)]
    /\ scall' = [scall EXCEPT ![p] = [SIdle EXCEPT !.pc = "load",
                                                   !.latency = l]]
    /\ UNCHANGED <<sdone, peakLeft, convVars, nonSvcVars>>

\* the exit test of the peak loop with the comparison turned round
peakSettledInverted(latency, current) == latency >= current

\* if uint64(latency) <= current { break }
peakSettled(latency, current) == latency <= current

\* current := atomic.LoadUint64(&peakLatencyNs) and the exit test
PeakLoad(p) ==
    /\ scall[p].pc = "load"
    /\ IF peakSettled(scall[p].latency, metrics.peakLatencyNs)
       THEN /\ SvcEnd(p, [resp |-> NoResp])
            /\ peakLeft' = peakLeft \cup {scall[p].latency}
       ELSE /\ scall' = [scall EXCEPT ![p].pc = "cas",
                                      ![p].current = metrics.peakLatencyNs]
            /\ UNCHANGED <<sdone, peakLeft>>
    /\ UNCHANGED <<metrics, convVars, nonSvcVars>>

\* a compare-and-swap that never swaps
CompareAndSwapNever(val, old, new) == [swapped |-> FALSE, val |-> val]

\* atomic.CompareAndSwapUint64(addr, old, new), val being *addr
CompareAndSwapUint64(val, old, new) ==
    IF val = old THEN [swapped |-> TRUE, val |-> new]
    ELSE [swapped |-> FALSE, val |-> val]

\* atomic.CompareAndSwapUint64(&peakLatencyNs, current, uint64(latency)):
\* break on success, the loop again on failure
PeakCAS(p) ==
    /\ scall[p].pc = "cas"
    /\ LET cas == CompareAndSwapUint64(metrics.peakLatencyNs, scall[p].current,
                                       scall[p].latency) IN
       IF cas.swapped
       THEN /\ metrics' = [metrics EXCEPT !.peakLatencyNs = cas.val]
            /\ SvcEnd(p, [resp |-> NoResp])
            /\ peakLeft' = peakLeft \cup {scall[p].latency}
       ELSE /\ scall' = [scall EXCEPT ![p].pc = "load", ![p].current = 0]
            /\ UNCHANGED <<metrics, sdone, peakLeft>>
    /\ UNCHANGED <<convVars, nonSvcVars>>

NextSvc ==
    \/ \E p \in Clients, r \in Requests : ServeHTTP(p, r)
    \/ \E p \in Clients : handleConvert(p)
    \/ \E p \in Clients : handleOther(p)
    \/ \E p \in Clients : handleMetricsRequests(p)
    \/ \E p \in Clients : handleMetricsLatency(p)
    \/ \E p \in Clients : handleMetricsErrors(p)
    \/ \E p \in Clients : handleMetricsPeak(p)
    \/ \E p \in Clients, l \in Latencies : RecordLatency(p, l)
    \/ \E p \in Clients : PeakLoad(p)
    \/ \E p \in Clients : PeakCAS(p)

SpecSvc == InitSvc /\ [][NextSvc]_vars

\* Fair scheduling of the goroutines: a request that is in the peak loop
\* keeps being run.
FairPeakLoop ==
    \A p \in Clients : WF_vars(PeakLoad(p)) /\ WF_vars(PeakCAS(p))
SpecSvcFair == SpecSvc /\ FairPeakLoop

---------------------------------------------------------------------------
(* Construction of a ZeroAllocConverter, then Convert calls on it          *)
(* (SpecCache).  conv.hundredsCache is the array of the converter,         *)
(* conv.writes counts the assignments to each entry (a history of the      *)
(* run).  The converter is not shared before NewZeroAllocConverter         *)
(* returns, so the construction is one step.  Convert reads                *)
(* c.hundredsCache[group]; ZAConvert reads the table hundredsCache above,  *)
(* which the finished array equals.                                        *)

CacheSize == 1000

\* the loop test of precomputeHundreds stopping one entry early
precomputeDoneEarly(i) == i >= CacheSize - 1

\* precomputeHundreds: the loop ends when i < 1000 fails
precomputeDone(i) == i >= CacheSize

InitCache ==
    /\ number = Zero
    /\ currency = <<>>
    /\ turboOut = NoOut
    /\ vcOut = NoOut
    /\ zaOut = NoStr
    /\ bufferPool = EmptyBag
    /\ tcall = <<>>
    /\ started = 0
    /\ returned = {}
    /\ poolOps = [gets |-> 0, puts |-> 0]
    /\ padIndex = 0
    /\ scratchPads = [i \in 0..(NumPads - 1) |-> <<>>]
    /\ zcall = <<>>
    /\ zstarted = 0
    /\ zresults = {}
    /\ plainOut = NoOut
    /\ metrics = [totalRequests |-> 0, totalLatencyNs |-> 0,
                  errorCount |-> 0, peakLatencyNs |-> 0]
    /\ scall = <<>>
    /\ sdone = <<>>
    /\ peakLeft = {}
    /\ conv = [hundredsCache |-> [i \in 0..(CacheSize - 1) |-> <<>>],
               writes |-> [i \in 0..(CacheSize - 1) |-> 0],
               returned |-> FALSE]
    /\ handler = <<>>
    /\ connPool = [conns |-> <<>>]
    /\ connState = <<>>

nonCacheVars == <<harnessVars, turboVars, zcall, curVars, svcVars, apiVars,
                  netVars>>

\* precomputeHundreds: for i := 0; i < 1000; i++ {
\*     c.hundredsCache[i] = c.computeThreeDigits(i) }
\* The loop reaches i when the test has let every index up to i pass.
precomputeReaches(i) == \A j \in 0..i : ~precomputeDone(j)
precomputeHundreds(c) ==
    [c EXCEPT
        !.hundredsCache = [i \in 0..(CacheSize - 1) |->
                              IF precomputeReaches(i)
                              THEN computeThreeDigits(i) ELSE @[i]],
        !.writes = [i \in 0..(CacheSize - 1) |->
                       IF precomputeReaches(i) THEN @[i] + 1 ELSE @[i]]]

\* NewZeroAllocConverter: the tables, conv.precomputeHundreds(), the scratch
\* pads, return conv
NewZeroAllocConverter ==
    /\ ~conv.returned
    /\ conv' = [precomputeHundreds(conv) EXCEPT !.returned = TRUE]
    /\ scratchPads' = [i \in 0..(NumPads - 1) |-> <<>>]
    /\ UNCHANGED <<padIndex, zstarted, zresults, nonCacheVars>>

\* Convert(n) on the returned converter, whole call
CacheConvert(n) ==
    /\ conv.returned
    /\ zstarted < MaxZACalls
    /\ zstarted' = zstarted + 1
    /\ LET r == ZAConvert(n, padIndex, scratchPads) IN
       /\ padIndex' = r.padIndex
       /\ scratchPads' = r.pads
       /\ zresults' = zresults \cup {ZResult(r.str, r.pads)}
    /\ UNCHANGED <<conv, nonCacheVars>>

CacheNumbers ==
    {I64(0, g) : g \in 0..9} \cup {I64(0, 999), I64(0, 21015), MaxNumber}

NextCache ==
    \/ NewZeroAllocConverter
    \/ \E n \in CacheNumbers : CacheConvert(n)

SpecCache == InitCache /\ [][NextCache]_vars

---------------------------------------------------------------------------
(* ConvertHandler: the HTTP handlers of internal/api (SpecAPI)             *)

\* strconv.ParseInt(s, 10, 64), which encoding/json also applies to the
\* literal of an int64 field: an optional sign, then digits only; a value
\* outside int64 is a range error.
MaxInt64Digits ==
    <<"9", "2", "2", "3", "3", "7", "2", "0", "3", "6", "8", "5", "4", "7", "7",
      "5", "8", "0", "7">>
MinInt64Digits ==
    <<"9", "2", "2", "3", "3", "7", "2", "0", "3", "6", "8", "5", "4", "7", "7",
      "5", "8", "0", "8">>
\* a > b for digit strings of one length
DigitsGt(a, b) ==
    \E k \in 1..Len(a) :
        /\ DigitValue(a[k]) > DigitValue(b[k])
        /\ \A j \in 1..(k - 1) : a[j] = b[j]
StripZeros(ds) ==
    LET nz == {k \in 1..Len(ds) : ds[k] # "0"}
    IN  IF nz = {} THEN <<"0">> ELSE SubSeq(ds, Min(nz), Len(ds))
OutOfInt64(neg, ds) ==
    LET d == StripZeros(ds)
    IN  \/ Len(d) > 19
        \/ Len(d) = 19 /\ DigitsGt(d, IF neg THEN MinInt64Digits ELSE MaxInt64Digits)

\* ParseInt with the sign dropped from the value
ParseIntUnsigned(str) ==
    LET signed == Len(str) > 0 /\ str[1] \in {"+", "-"}
        ds == IF signed THEN Tail(str) ELSE str
    IN  IF Len(ds) = 0 \/ \E k \in 1..Len(ds) : ds[k] \notin DigitChars
        THEN [err |-> "invalid syntax", number |-> Zero]
        ELSE [err |-> "", number |-> parseIntLoop(StripZeros(ds), 1, Zero)]

ParseInt(str) ==
    LET signed == Len(str) > 0 /\ str[1] \in {"+", "-"}
        neg == signed /\ str[1] = "-"
        ds == IF signed THEN Tail(str) ELSE str
    IN  IF Len(ds) = 0 \/ \E k \in 1..Len(ds) : ds[k] \notin DigitChars
        THEN [err |-> "invalid syntax", number |-> Zero]
        ELSE IF OutOfInt64(neg, ds)
        THEN [err |-> "value out of range", number |-> Zero]
        ELSE LET v == parseIntLoop(StripZeros(ds), 1, Zero)
             IN  [err |-> "", number |-> [v EXCEPT !.neg = neg /\ ~IsZero(v)]]

\* json.NewDecoder(r.Body).Decode(&req) for a body with the members the
\* record lists: a body that is not JSON fails, an absent member keeps the
\* zero value, the number literal goes through ParseInt.
DecodeBody(body) ==
    IF body.malformed THEN [err |-> "invalid character", number |-> Zero,
                            currency |-> <<>>]
    ELSE IF ~body.hasNumber THEN [err |-> "", number |-> Zero,
                                  currency |-> body.currency]
    ELSE LET r == ParseInt(body.number)
         IN  IF r.err # ""
             THEN [err |-> "cannot unmarshal number", number |-> Zero,
                   currency |-> <<>>]
             ELSE [err |-> "", number |-> r.number, currency |-> body.currency]

\* the responses of the handlers
StatusOK == 200
StatusBadRequest == 400
StatusInternalServerError == 500
NoAnswer == [status |-> 0, error |-> "", details |-> "", vietnamese |-> <<>>]
sendError(statusCode, message, details) ==
    [status |-> statusCode, error |-> message, details |-> details,
     vietnamese |-> <<>>]
ConvertResponse(vietnamese) ==
    [status |-> StatusOK, error |-> "", details |-> "",
     vietnamese |-> vietnamese]

\* h.converter.ConvertWithCurrency: the NumberConverter the handler was built
\* with.  The Turbo converter takes a builder from its pool and puts it back.
HandlerConverters == {"TurboVietnameseConverter", "vietnameseConverter"}
HandlerConvert(impl, sb, n, cur) ==
    IF impl = "vietnameseConverter"
    THEN [out |-> VCConvertWithCurrency(n, cur), held |-> FALSE, sb |-> <<>>]
    ELSE LET early == TurboEarly(n, cur) IN
         IF early.called THEN [out |-> early, held |-> FALSE, sb |-> <<>>]
         ELSE LET st == TurboFill(sb, n, cur)
              IN  [out |-> Ok(TurboNormalize(st.sb), st.marks), held |-> TRUE,
                   sb |-> st.sb]

\* the answer to an error of the converter
ConvertErrorAnswer(err) ==
    IF err = "number too large (max: 999,999,999,999,999)"
       \/ err = "negative numbers not supported"
    THEN sendError(StatusBadRequest, "Invalid number", err)
    ELSE sendError(StatusInternalServerError,
                   "Conversion failed unexpectedly", err)

\* "Validate input" and "Convert number", the same in both handlers
ValidateAndConvert(impl, sb, n, cur) ==
    IF LtZero(n) THEN
        [answer |-> sendError(StatusBadRequest, "Number must be non-negative", ""),
         held |-> FALSE, sb |-> <<>>]
    ELSE IF Gt(n, MaxNumber) THEN
        [answer |-> sendError(StatusBadRequest, "Number too large",
                              "Maximum supported: 999,999,999,999,999"),
         held |-> FALSE, sb |-> <<>>]
    ELSE LET r == HandlerConvert(impl, sb, n, cur) IN
         [answer |-> IF r.out.err # "" THEN ConvertErrorAnswer(r.out.err)
                     ELSE ConvertResponse(r.out.text),
          held |-> r.held, sb |-> r.sb]

DefaultCurrency(cur) == IF cur = <<>> THEN dong ELSE cur

\* The requests: a number as the client wrote it, with the number meant.
APINumbers ==
    {Zero, I64(0, 1), I64(0, 21), I64(0, 1001), I64(0, 34000), MaxNumber,
     I64(1000000, 0), I64(2147483, 647000999), Neg(0, 1), Neg(0, 1001),
     Neg(1000000, 0)}
APICurrencies == {<<>>, dong, usd}
NumberTooLong == <<"9">> \o MaxInt64Digits
NotNumbers == {<<"a", "b", "c">>, <<"1", "2", "x">>, <<"1", ".", "5">>,
               <<"-">>, NumberTooLong, MinInt64Digits}
Body(malformed, hasNum, num, cur, n) ==
    [handler |-> "ConvertNumber", malformed |-> malformed,
     hasNumber |-> hasNum, number |-> num, currency |-> cur, sent |-> n]
Query(num, cur, hasNum, n) ==
    [handler |-> "ConvertFromURL", malformed |-> FALSE, hasNumber |-> hasNum,
     number |-> num, currency |-> cur, sent |-> n]
APIRequests ==
    {Body(FALSE, TRUE, DecimalI64(n), c, n) : n \in APINumbers, c \in APICurrencies}
    \cup {Body(FALSE, TRUE, t, dong, Zero) : t \in NotNumbers}
    \cup {Body(TRUE, FALSE, <<>>, <<>>, Zero), Body(FALSE, FALSE, <<>>, dong, Zero)}
    \cup {Query(DecimalI64(n), c, TRUE, n) : n \in APINumbers, c \in APICurrencies}
    \cup {Query(<<"+">> \o DecimalI64(n), dong, TRUE, n) :
              n \in {I64(0, 21), I64(1000000, 0)}}
    \cup {Query(t, dong, FALSE, Zero) : t \in NotNumbers \cup {<<>>}}

NoRequest ==
    [handler |-> "", malformed |-> FALSE, hasNumber |-> FALSE,
     number |-> <<>>, currency |-> <<>>, sent |-> Zero]

\* NewConvertHandler(converter, logger), nothing served yet
InitAPI ==
    /\ number = Zero
    /\ currency = <<>>
    /\ turboOut = NoOut
    /\ vcOut = NoOut
    /\ zaOut = NoStr
    /\ bufferPool = EmptyBag
    /\ tcall = <<>>
    /\ started = 0
    /\ returned = {}
    /\ poolOps = [gets |-> 0, puts |-> 0]
    /\ padIndex = 0
    /\ scratchPads = [i \in 0..(NumPads - 1) |-> <<>>]
    /\ zcall = <<>>
    /\ zstarted = 0
    /\ zresults = {}
    /\ plainOut = NoOut
    /\ metrics = [totalRequests |-> 0, totalLatencyNs |-> 0,
                  errorCount |-> 0, peakLatencyNs |-> 0]
    /\ scall = <<>>
    /\ sdone = <<>>
    /\ peakLeft = {}
    /\ conv = <<>>
    /\ \E impl \in HandlerConverters :
           handler = [converter |-> impl, req |-> NoRequest,
                      resp |-> NoAnswer]
    /\ connPool = [conns |-> <<>>]
    /\ connState = <<>>

nonAPIVars == <<number, currency, turboOut, vcOut, zaOut, padIndex,
                scratchPads, concVars, curVars, svcVars, cacheVars, netVars>>

\* the handler answers, having held the builder sb if the converter took one
Answer(req, r, sb) ==
    /\ handler' = [handler EXCEPT !.req = req, !.resp = r.answer]
    /\ bufferPool' = IF r.held
                     THEN PoolPut(PoolAfterGet(bufferPool, sb), r.sb)
                     ELSE bufferPool

\* The builders Get may hand out to a handler: one at rest, or a new one
\* while fewer than MaxPooled builders are at rest.
MaxPooled == 1
HandlerBuilders ==
    BagToSet(bufferPool)
    \cup (IF BagCardinality(bufferPool) < MaxPooled THEN {<<>>} ELSE {})

NotConverted(answer) == [answer |-> answer, held |-> FALSE, sb |-> <<>>]

\* ConvertHandler.ConvertNumber (POST /api/v1/convert), whole handler
ConvertNumber(req) ==
    /\ req.handler = "ConvertNumber"
    /\ LET dec == DecodeBody(req) IN
       IF dec.err # "" THEN
           Answer(req, NotConverted(sendError(StatusBadRequest,
                                    "Invalid request body", dec.err)), <<>>)
       ELSE
           \E sb \in HandlerBuilders :
               Answer(req, ValidateAndConvert(handler.converter, sb, dec.number,
                                              DefaultCurrency(dec.currency)), sb)
    /\ UNCHANGED nonAPIVars

\* ConvertHandler.ConvertFromURL (GET /api/v1/convert), whole handler
ConvertFromURL(req) ==
    /\ req.handler = "ConvertFromURL"
    /\ IF req.number = <<>> THEN
           Answer(req, NotConverted(sendError(StatusBadRequest,
                                    "Missing number parameter", "")), <<>>)
       ELSE
           LET parsed == ParseInt(req.number) IN
           IF parsed.err # "" THEN
               Answer(req, NotConverted(sendError(StatusBadRequest,
                                        "Invalid number format", parsed.err)), <<>>)
           ELSE
               \E sb \in HandlerBuilders :
                   Answer(req, ValidateAndConvert(handler.converter, sb,
                                                  parsed.number,
                                                  DefaultCurrency(req.currency)), sb)
    /\ UNCHANGED nonAPIVars

NextAPI ==
    \/ \E req \in APIRequests : ConvertNumber(req)
    \/ \E req \in APIRequests : ConvertFromURL(req)

SpecAPI == InitAPI /\ [][NextAPI]_vars

---------------------------------------------------------------------------
(* PerfectService.handleConnState: the connection pool (SpecNet)           *)

\* The connections the server accepts in one run, and the capacity of
\* connPool.conns (numCPU*100 in NewPerfectService).
NumConns == 4
ConnCap == 2
Conns == 1..NumConns

\* The http.ConnState values the server reports for a connection, in the
\* order net/http allows: StateNew first, StateClosed last.
ConnStates == {"StateNew", "StateActive", "StateIdle", "StateClosed"}
ConnStateAllowed(from, to) ==
    \/ from = "" /\ to = "StateNew"
    \/ from = "StateNew" /\ to \in {"StateActive", "StateClosed"}
    \/ from = "StateActive" /\ to \in {"StateIdle", "StateClosed"}
    \/ from = "StateIdle" /\ to \in {"StateActive", "StateClosed"}

\* select { case conns <- conn: default: }: a send on the buffered channel
\* when it has room
ChanTrySend(ch, conn) == IF Len(ch) < ConnCap THEN Append(ch, conn) ELSE ch
\* select { case <-conns: default: }: a receive takes the oldest element
ChanTryReceive(ch) == IF Len(ch) > 0 THEN Tail(ch) ELSE ch

\* NewPerfectService: an empty connection pool, no connection accepted yet
InitNet ==
    /\ number = Zero
    /\ currency = <<>>
    /\ turboOut = NoOut
    /\ vcOut = NoOut
    /\ zaOut = NoStr
    /\ bufferPool = EmptyBag
    /\ tcall = <<>>
    /\ started = 0
    /\ returned = {}
    /\ poolOps = [gets |-> 0, puts |-> 0]
    /\ padIndex = 0
    /\ scratchPads = [i \in 0..(NumPads - 1) |-> <<>>]
    /\ zcall = <<>>
    /\ zstarted = 0
    /\ zresults = {}
    /\ plainOut = NoOut
    /\ metrics = [totalRequests |-> 0, totalLatencyNs |-> 0,
                  errorCount |-> 0, peakLatencyNs |-> 0]
    /\ scall = <<>>
    /\ sdone = <<>>
    /\ peakLeft = {}
    /\ conv = <<>>
    /\ handler = <<>>
    /\ connPool = [conns |-> <<>>]
    /\ connState = [c \in Conns |-> ""]

nonNetVars == <<number, currency, turboOut, vcOut, zaOut, bufferPool, padIndex,
                scratchPads, concVars, curVars, svcVars, cacheVars, apiVars>>

\* PerfectService.handleConnState(conn, state), called by the server when
\* the connection changes state
handleConnState(conn, state) ==
    /\ ConnStateAllowed(connState[conn], state)
    /\ connState' = [connState EXCEPT ![conn] = state]
    /\ connPool' =
           IF state = "StateNew"
           THEN [connPool EXCEPT !.conns = ChanTrySend(@, conn)]
           ELSE IF state = "StateClosed"
           THEN [connPool EXCEPT !.conns = ChanTryReceive(@)]
           ELSE connPool
    /\ UNCHANGED nonNetVars

NextNet == \E conn \in Conns, state \in ConnStates : handleConnState(conn, state)

SpecNet == InitNet /\ [][NextNet]_vars

---------------------------------------------------------------------------
(* Vocabulary of the claims (stated apart from the converters' tables)     *)

\* the number lies in [0, 999,999,999,999,999]
InDomain(n) == (~n.neg \/ (n.hi = 0 /\ n.lo = 0)) /\ n.hi <= 999999

\* group i (0 = lowest) of a non-negative number, by its decimal digits
GroupAt(n, i) ==
    IF i = 0 THEN n.lo % 1000
    ELSE IF i = 1 THEN (n.lo \div 1000) % 1000
    ELSE IF i = 2 THEN n.lo \div 1000000
    ELSE IF i = 3 THEN n.hi % 1000
    ELSE IF i = 4 THEN (n.hi \div 1000) % 1000
    ELSE n.hi \div 1000000

\* index of the most significant non-zero group of n > 0
TopIndex(n) == CHOOSE i \in 0..5 :
                   GroupAt(n, i) # 0 /\ \A j \in (i + 1)..5 : GroupAt(n, j) = 0

DigitWord(d) ==
    CASE d = 1 -> mot [] d = 2 -> hai [] d = 3 -> ba [] d = 4 -> bon
      [] d = 5 -> nam [] d = 6 -> sau [] d = 7 -> bay [] d = 8 -> tam
      [] d = 9 -> chin

\* a Turbo call on a number of the domain other than 0 has returned
TurboRendered == turboOut.called /\ turboOut.err = "" /\ ~IsZero(number)

\* The marks describe the number: one mark per non-zero group, from the most
\* significant down, each with the group's value.
MarksMatch(marks, n) ==
    /\ Len(marks) = Cardinality({i \in 0..4 : GroupAt(n, i) # 0})
    /\ \A k \in 1..Len(marks) :
           /\ marks[k].group = GroupAt(n, marks[k].index)
           /\ marks[k].group # 0
           /\ k > 1 => marks[k].index < marks[k - 1].index
    /\ marks[1].index = TopIndex(n)

\* the text the group of mark m reads in the returned text
Segment(m) == SubSeq(turboOut.text, m.from, m.to)

\* s ends with the words p (p is all of s or follows a space)
EndsWithWords(s, p) ==
    /\ HasSuffix(s, p)
    /\ Len(s) > Len(p) => s[Len(s) - Len(p)] = SP

Occurrences(s, p) == Cardinality({i \in 1..Len(s) : HasPrefixAt(s, i, p)})

---------------------------------------------------------------------------
(* Claims                                                                  *)

\* C1: in both NumberConverter implementations ConvertWithCurrency fails with
\* the empty text for a number below 0 or above 999,999,999,999,999 and gives
\* no error for a number in between; 999,999,999,999,999 converts,
\* 1,000,000,000,000,000 and -1 fail.
C1_Validates(out) ==
    out.called =>
        /\ ~InDomain(number) => out.err # "" /\ out.text = <<>>
        /\ InDomain(number) => out.err = ""
        /\ number = I64(999999, 999999999) => out.err = "" /\ out.text # <<>>
        /\ number = I64(1000000, 0) => out.err = ErrTooLarge
        /\ number = Neg(0, 1) => out.err = ErrNegative
C1_DomainChecked == C1_Validates(turboOut) /\ C1_Validates(vcOut)
C1_Witness ==
    /\ number = I64(1000000, 0)
    /\ turboOut.called /\ vcOut.called
    /\ turboOut.err = ErrTooLarge /\ vcOut.err = ErrTooLarge

\* C2 (as claimed): for every n in the domain ZeroAllocConverter.Convert(n)
\* returns the same text as TurboVietnameseConverter.ConvertWithCurrency(n,
\* "đồng").
C2_SameTextAsTurbo ==
    (turboOut.called /\ zaOut.called /\ currency = dong /\ InDomain(number))
        => zaOut.text = turboOut.text

\* C6: ConvertWithCurrency(0, c) returns "không" for the empty currency and
\* "không " + c otherwise ("không đồng" for the default currency).
C6_Zero ==
    (turboOut.called /\ IsZero(number)) =>
        /\ turboOut.err = ""
        /\ currency = <<>> => turboOut.text = khong
        /\ currency # <<>> => turboOut.text = khong \o <<SP>> \o currency
        /\ currency = dong => turboOut.text = <<"k", "h", "o^", "n", "g", " ",
                                                "dd", "o^!", "n", "g">>
C6_Witness == turboOut.called /\ IsZero(number) /\ currency = dong

C8_Original ==
    (turboOut.called /\ number = I64(0, 1001) /\ currency = dong) =>
        turboOut.text = mot \o <<SP>> \o nghin \o <<SP>> \o le \o <<SP>>
                        \o mot \o <<SP>> \o dong

\* C8 (amended): 1001 with currency "đồng" reads
\* "một nghìn không trăm lẻ một đồng".
C8_Amended ==
    (turboOut.called /\ number = I64(0, 1001) /\ currency = dong) =>
        /\ turboOut.err = ""
        /\ turboOut.text = mot \o <<SP>> \o nghin \o <<SP>> \o khong \o <<SP>>
                           \o tram \o <<SP>> \o le \o <<SP>> \o mot
                           \o <<SP>> \o dong
C8_Witness == turboOut.called /\ number = I64(0, 1001) /\ currency = dong

\* C9: a group with tens digit 0 and ones digit d > 0 whose hundreds part was
\* rendered ("<h> trăm" or the filler "không trăm") has "lẻ" immediately
\* before the word for d; "lẻ" is emitted in no other situation.
C9_HasGap(m) ==
    /\ (m.group \div 10) % 10 = 0
    /\ m.group % 10 > 0
    /\ (m.group \div 100 > 0 \/ m.index < TopIndex(number))
C9_Link ==
    TurboRendered =>
        /\ MarksMatch(turboOut.marks, number)
        /\ \A k \in 1..Len(turboOut.marks) :
               LET m == turboOut.marks[k] IN
               IF C9_HasGap(m)
               THEN /\ EndsWithWords(Segment(m),
                           tram \o <<SP>> \o le \o <<SP>> \o DigitWord(m.group % 10))
                    /\ Occurrences(Segment(m), le) = 1
               ELSE Occurrences(Segment(m), le) = 0
        /\ Occurrences(turboOut.text, le) =
               Cardinality({k \in 1..Len(turboOut.marks) :
                               C9_HasGap(turboOut.marks[k])})
C9_Witness ==
    /\ TurboRendered
    /\ \E k \in 1..Len(turboOut.marks) :
           /\ turboOut.marks[k].group = 1
           /\ turboOut.marks[k].index = 0
           /\ k > 1
    /\ \E k \in 1..Len(turboOut.marks) :
           /\ turboOut.marks[k].group = 24
    /\ Occurrences(turboOut.text, le) = 1

\* C10: in every group, whatever its index, a tens digit t >= 2 reads
\* "<word of t> mươi" followed, for a ones digit o > 0, by "mốt" (o = 1),
\* "tư" (o = 4), "lăm" (o = 5) or the base word; t = 1 reads "mười"
\* followed, for o > 0, by "lăm" (o = 5) or the base word.
C10_OnesAfterTens(t, o) ==
    IF t >= 2 THEN
        CASE o = 1 -> mot21 [] o = 4 -> tu [] o = 5 -> lam
          [] OTHER -> DigitWord(o)
    ELSE IF o = 5 THEN lam ELSE DigitWord(o)
C10_TensPhrase(t, o) ==
    (IF t >= 2 THEN DigitWord(t) \o <<SP>> \o muoi ELSE muoi10)
    \o (IF o > 0 THEN <<SP>> \o C10_OnesAfterTens(t, o) ELSE <<>>)
C5_Deterministic ==
    \A r1, r2 \in returned :
        (r1.number = r2.number /\ r1.currency = r2.currency) =>
            (r1.text = r2.text /\ r1.err = r2.err)
C5_Witness ==
    \E r1, r2 \in returned :
        /\ r1.number = I64(0, 1001) /\ r2.number = I64(0, 1001)
        /\ r1.currency = r2.currency
        /\ ~r1.used /\ r2.used
        /\ \E p \in Procs : tcall[p].pc = "filled"

\* C3 (as claimed): no two Convert calls in flight at the same time have
\* obtained the same scratch pad from getScratchBuffer.
C3_HasPad(p) == zcall[p].pc \in {"append", "ret"}
C3_ExclusivePads ==
    \A p, q \in Procs :
        (p # q /\ C3_HasPad(p) /\ C3_HasPad(q)) =>
            zcall[p].index # zcall[q].index

\* C4 (as claimed): a text returned by Convert keeps its content: the bytes
\* behind every string handed out still read what they read on return.
C4_ResultsKeepContent ==
    \A r \in zresults : StringBytes(r.str, scratchPads) = r.bytes

\* C11: a group of value 0 contributes nothing to the text: there is one
\* rendered segment per non-zero group and none for a zero group, each scale
\* word occurs once per non-zero group that carries it (index 4 reads
\* "nghìn tỷ"), "không" is never directly followed by a scale word, and no
\* two spaces are adjacent; 2355200847 reads "hai tỷ ba trăm năm mươi lăm
\* triệu hai trăm nghìn tám trăm bốn mươi bảy đồng".
C11_NonZeroAt(idxs) == Cardinality({i \in idxs : GroupAt(number, i) # 0})
C11_Text2355200847 ==
    hai \o <<SP>> \o ty \o <<SP>> \o ba \o <<SP>> \o tram \o <<SP>> \o nam
    \o <<SP>> \o muoi \o <<SP>> \o lam \o <<SP>> \o trieu \o <<SP>> \o hai
    \o <<SP>> \o tram \o <<SP>> \o nghin \o <<SP>> \o tam \o <<SP>> \o tram
    \o <<SP>> \o bon \o <<SP>> \o muoi \o <<SP>> \o bay \o <<SP>> \o dong
C11_ZeroGroupsSilent ==
    TurboRendered =>
        /\ MarksMatch(turboOut.marks, number)
        /\ Occurrences(turboOut.text, nghin) = C11_NonZeroAt({1, 4})
        /\ Occurrences(turboOut.text, trieu) = C11_NonZeroAt({2})
        /\ Occurrences(turboOut.text, ty) = C11_NonZeroAt({3, 4})
        /\ \A w \in {nghin, trieu, ty} :
               ~Contains(turboOut.text, khong \o <<SP>> \o w)
        /\ ~Contains(turboOut.text, <<SP, SP>>)
        /\ (number = I64(2, 355200847) /\ currency = dong) =>
               turboOut.text = C11_Text2355200847
C11_Witness ==
    /\ TurboRendered
    /\ GroupAt(number, 3) # 0
    /\ GroupAt(number, 2) = 0 /\ GroupAt(number, 1) = 0
    /\ GroupAt(number, 0) = 1
    /\ Contains(turboOut.text, khong \o <<SP>> \o tram)

\* C12: the number part of the text is the single-space join, from the most
\* significant group down to group 0, of one segment per non-zero group, each
\* segment being the group's phrase followed, for an index i > 0, by a space
\* and the scale word of i (1 nghìn, 2 triệu, 3 tỷ, 4 nghìn tỷ); the currency
\* follows after one space.  123456789 reads "một trăm hai mươi ba triệu bốn
\* trăm năm mươi sáu nghìn bảy trăm tám mươi chín đồng".
C12_ScaleWord(i) ==
    CASE i = 1 -> nghin [] i = 2 -> trieu [] i = 3 -> ty
      [] i = 4 -> nghin \o <<SP>> \o ty
C12_SegmentText(m) ==
    Segment(m) \o (IF m.index > 0 THEN <<SP>> \o C12_ScaleWord(m.index)
                   ELSE <<>>)
C12_NumberPart ==
    Join([k \in 1..Len(turboOut.marks) |-> C12_SegmentText(turboOut.marks[k])],
         <<SP>>)
C12_Text123456789 ==
    mot \o <<SP>> \o tram \o <<SP>> \o hai \o <<SP>> \o muoi \o <<SP>> \o ba
    \o <<SP>> \o trieu \o <<SP>> \o bon \o <<SP>> \o tram \o <<SP>> \o nam
    \o <<SP>> \o muoi \o <<SP>> \o sau \o <<SP>> \o nghin \o <<SP>> \o bay
    \o <<SP>> \o tram \o <<SP>> \o tam \o <<SP>> \o muoi \o <<SP>> \o chin
    \o <<SP>> \o dong
C12_Joined ==
    TurboRendered =>
        /\ MarksMatch(turboOut.marks, number)
        /\ \A k \in 1..Len(turboOut.marks) :
               /\ turboOut.marks[k].from <= turboOut.marks[k].to
               /\ ~Contains(Segment(turboOut.marks[k]), <<SP, SP>>)
        /\ turboOut.text =
               C12_NumberPart \o (IF currency # <<>> THEN <<SP>> \o currency
                                  ELSE <<>>)
        /\ (number = I64(0, 123456789) /\ currency = dong) =>
               turboOut.text = C12_Text123456789
C12_Witness ==
    /\ TurboRendered
    /\ number = I64(0, 123456789)
    /\ currency = dong
    /\ Len(turboOut.marks) = 3

\* C13 (as claimed): for every number of the domain and every non-empty
\* currency c, ConvertWithCurrency(n, c) is ConvertWithCurrency(n, "")
\* followed by one space and c unchanged; with the empty currency nothing is
\* appended.
C13_LiteralSuffix ==
    (turboOut.called /\ plainOut.called /\ InDomain(number)) =>
        /\ turboOut.err = "" /\ plainOut.err = ""
        /\ currency # <<>> =>
               turboOut.text = plainOut.text \o <<SP>> \o currency
        /\ currency = <<>> => turboOut.text = plainOut.text

\* C14: the request counter is exact in every interleaving: totalRequests is
\* the number of ServeHTTP calls that have ended plus the calls in flight,
\* so when each of the N clients has completed M calls it is N * M, whatever
\* route each request took and however it ended.
RECURSIVE C14_SumDone(_)
C14_SumDone(n) == IF n = 0 THEN 0 ELSE sdone[n] + C14_SumDone(n - 1)
C14_InFlight == Cardinality({p \in Clients : scall[p].pc # "idle"})
C14_ExactCount ==
    /\ metrics.totalRequests = C14_SumDone(NumClients) + C14_InFlight
    /\ (\A p \in Clients : sdone[p] = CallsPerClient) =>
           metrics.totalRequests = NumClients * CallsPerClient
C14_Witness ==
    /\ \A p \in Clients : sdone[p] = CallsPerClient
    /\ metrics.totalRequests = NumClients * CallsPerClient
    /\ metrics.errorCount > 0
    /\ metrics.peakLatencyNs = MaxLatency
    /\ padIndex > 0
    /\ \E p \in Clients : scall[p].resp = Resp(404)

\* C15: peakLatencyNs never decreases in any step; once a request with
\* latency L has left the peak-update loop peakLatencyNs >= L; and
\* peakLatencyNs is the largest latency among the requests that have left the
\* loop (0 before any has), in particular when no request is in flight.
C15_Max(S) == CHOOSE x \in S : \A y \in S : y <= x
C15_Covers ==
    /\ \A l \in peakLeft : metrics.peakLatencyNs >= l
    /\ metrics.peakLatencyNs = C15_Max(peakLeft \cup {0})
C15_PeakNeverDecreases ==
    /\ [][metrics.peakLatencyNs' >= metrics.peakLatencyNs]_vars
    /\ []C15_Covers
C15_Witness ==
    /\ \E p \in Clients :
           /\ scall[p].pc = "cas"
           /\ scall[p].current # metrics.peakLatencyNs
           /\ scall[p].latency < metrics.peakLatencyNs
    /\ \E q \in Clients : scall[q].pc = "load" /\ scall[q].latency = MaxLatency
    /\ peakLeft # {}

\* C16: the group cache is built, then frozen: no entry is written twice;
\* when NewZeroAllocConverter has returned, each of the 1000 entries has
\* been written exactly once and holds computeThreeDigits of its index; and
\* from then on no step changes any entry.
C16_Built ==
    /\ \A i \in 0..999 : conv.writes[i] <= 1
    /\ conv.returned =>
           /\ \A i \in 0..999 : conv.writes[i] = 1
           /\ \A i \in 0..999 : conv.hundredsCache[i] = computeThreeDigits(i)
           /\ conv.hundredsCache = hundredsCache
C16_BuiltThenFrozen ==
    /\ []C16_Built
    /\ [][conv.returned =>
              /\ conv'.returned
              /\ conv'.hundredsCache = conv.hundredsCache
              /\ conv'.writes = conv.writes]_vars
C16_Witness ==
    /\ conv.returned
    /\ zstarted = MaxZACalls
    /\ conv.hundredsCache[999] # <<>>
    /\ \E r \in zresults : Len(r.bytes) > PadCap

\* C17 (as claimed): on the turbo service path a request whose number is
\* below 0 or above 999,999,999,999,999 never receives a rendered number
\* text: handleConvert does not answer it with a conversion.
C17_OutOfDomainRejected ==
    \A p \in Clients :
        (/\ scall[p].resp.written
         /\ scall[p].req.hasNumber
         /\ ~InDomain(scall[p].req.sent))
            => scall[p].resp.kind # "convert"

\* the groups (indexes 0..4) of the number under test that satisfy P
GroupsWhere(P(_)) == Cardinality({i \in 0..4 : P(GroupAt(number, i))})

\* a ZeroAllocConverter call on a number of the domain other than 0 returned
ZARendered == zaOut.called /\ InDomain(number) /\ ~IsZero(number)

\* C18 (as claimed): ZeroAllocConverter renders the ones digit 5 as "lăm" in
\* every group whose tens digit is at least 1 and as "năm" only when the tens
\* digit is 0: "lăm" occurs once per group with ones digit 5 and tens digit
\* >= 1, "năm" once per hundreds digit 5, tens digit 5, and ones digit 5
\* after a tens digit 0; 15 reads "mười lăm đồng".
C18_LamGroup(g) == g % 10 = 5 /\ (g \div 10) % 10 >= 1
C18_NamCount(g) ==
    (IF g \div 100 = 5 THEN 1 ELSE 0)
    + (IF (g \div 10) % 10 = 5 THEN 1 ELSE 0)
    + (IF g % 10 = 5 /\ (g \div 10) % 10 = 0 THEN 1 ELSE 0)
RECURSIVE C18_NamTotal(_)
C18_NamTotal(i) ==
    IF i < 0 THEN 0 ELSE C18_NamCount(GroupAt(number, i)) + C18_NamTotal(i - 1)
C18_LamAfterTens ==
    ZARendered =>
        /\ Occurrences(zaOut.text, lam) = GroupsWhere(C18_LamGroup)
        /\ Occurrences(zaOut.text, nam) = C18_NamTotal(4)
        /\ number = I64(0, 15) =>
               zaOut.text = muoi10 \o <<SP>> \o lam \o <<SP>> \o dong

\* C19 (as claimed): in ZeroAllocConverter "lẻ" appears in a group's phrase
\* exactly when the hundreds digit is non-zero, the tens digit is 0 and the
\* ones digit is non-zero; it is never placed before "mười"; 101 reads
\* "một trăm lẻ một đồng".
C19_LeGroup(g) == g \div 100 > 0 /\ (g \div 10) % 10 = 0 /\ g % 10 > 0
C19_LeOnlyInGap ==
    ZARendered =>
        /\ Occurrences(zaOut.text, le) = GroupsWhere(C19_LeGroup)
        /\ ~Contains(zaOut.text, le \o <<SP>> \o muoi10)
        /\ number = I64(0, 101) =>
               zaOut.text = mot \o <<SP>> \o tram \o <<SP>> \o le \o <<SP>>
                            \o mot \o <<SP>> \o dong

\* C20 (as claimed): vietnameseConverter renders a group below the most
\* significant one with hundreds digit 0, tens digit 0 and ones digit d > 0
\* as "không trăm lẻ <d>"; 1001 reads "một nghìn không trăm lẻ một đồng".
C20_GapGroups ==
    Cardinality({i \in 0..4 : /\ i < TopIndex(number)
                              /\ GroupAt(number, i) \in 1..9})
C20_FillerWithLink ==
    (vcOut.called /\ vcOut.err = "" /\ ~IsZero(number)) =>
        /\ Occurrences(vcOut.text,
                       khong \o <<SP>> \o tram \o <<SP>> \o le \o <<SP>>)
               = C20_GapGroups
        /\ (number = I64(0, 1001) /\ currency = dong) =>
               vcOut.text = mot \o <<SP>> \o nghin \o <<SP>> \o khong
                            \o <<SP>> \o tram \o <<SP>> \o le \o <<SP>> \o mot
                            \o <<SP>> \o dong

\* a vietnameseConverter call on a number of the domain other than 0 returned
VCRendered == vcOut.called /\ vcOut.err = "" /\ ~IsZero(number)

\* C21 (as claimed): in vietnameseConverter the ones digit 4 after a tens
\* digit >= 2 reads "tu" in the lowest group and "bon" in every group of
\* index > 0: "muoi tu" occurs once if group 0 has tens >= 2 and ones 4 and
\* otherwise never, "muoi bon" once per such group of index > 0; 34000 reads
\* "ba muoi bon nghin dong".
C21_FourGroup(g) == g % 10 = 4 /\ (g \div 10) % 10 >= 2
C21_HigherFours ==
    Cardinality({i \in 1..4 : C21_FourGroup(GroupAt(number, i))})
C21_FourByIndex ==
    VCRendered =>
        /\ Occurrences(vcOut.text, muoi \o <<SP>> \o tu)
               = (IF C21_FourGroup(GroupAt(number, 0)) THEN 1 ELSE 0)
        /\ Occurrences(vcOut.text, muoi \o <<SP>> \o bon) = C21_HigherFours
        /\ (number = I64(0, 34000) /\ currency = dong) =>
               vcOut.text = ba \o <<SP>> \o muoi \o <<SP>> \o bon \o <<SP>>
                            \o nghin \o <<SP>> \o dong

\* C22: ConvertNumber and ConvertFromURL answer every request whose number is
\* below 0 or above 999,999,999,999,999 with status 400 and no converted
\* text, and the errors the converters return for such numbers are answered
\* with 400, never with 500.
C22_Rejected(n, c) ==
    {TurboEarly(n, c).err, VCConvertWithCurrency(n, c).err}
C23_InProgress == {p \in Procs : tcall[p].pc # "idle"}
C23_Balanced ==
    /\ poolOps.gets - poolOps.puts = Cardinality(C23_InProgress)
    /\ C23_InProgress = {} => poolOps.gets = poolOps.puts
C23_EarlyHoldsNothing ==
    \A r \in returned' \ returned :
        (~InDomain(r.number) \/ IsZero(r.number)) =>
            /\ poolOps' = poolOps
            /\ bufferPool' = bufferPool
            /\ tcall' = tcall
C23_BuildersPutBack == []C23_Balanced /\ [][C23_EarlyHoldsNothing]_vars
\* two calls have taken and put back a builder, a third has failed validation,
\* and nothing is in progress
C23_Witness ==
    /\ poolOps = [gets |-> 2, puts |-> 2]
    /\ C23_InProgress = {}
    /\ \E r \in returned : r.err # ""
    /\ \E r \in returned : r.used

\* C24: the peak-latency compare-and-swap loop of ServeHTTP terminates: with
\* finitely many requests and fair scheduling, every request that is in the
\* loop eventually leaves it.
C24_InLoop(p) == scall[p].pc \in {"load", "cas"}
C24_LoopTerminates == \A p \in Clients : C24_InLoop(p) ~> ~C24_InLoop(p)
\* a request is about to fail its compare-and-swap, because another request
\* raised the peak after its load, and still has the larger latency: it goes
\* round the loop again
C24_Witness ==
    \E p \in Clients :
        /\ scall[p].pc = "cas"
        /\ scall[p].current # metrics.peakLatencyNs
        /\ scall[p].latency > metrics.peakLatencyNs

\* C25: for every n in (0, 999,999,999,999,999] the segmentation loop of
\* TurboVietnameseConverter.ConvertWithCurrency ends with at most 5 groups,
\* so every write to the 5-slot groups array and every read of scales[i] is
\* in bounds, and the conversion completes with a text.
C25_GroupCount == Len(TurboSegment(number, <<>>))
C25_SegmentationInBounds ==
    /\ (turboOut.called /\ InDomain(number) /\ ~IsZero(number)) =>
           turboOut.err = "" /\ turboOut.text # <<>>
    /\ TurboRendered =>
           /\ C25_GroupCount \in 1..GroupSlots
           /\ \A k \in 1..Len(turboOut.marks) :
                  /\ turboOut.marks[k].index < C25_GroupCount
                  /\ turboOut.marks[k].index \in 0..(NumScales - 1)
\* the largest number of the domain fills all five slots
C25_Witness ==
    /\ turboOut.called
    /\ number = MaxNumber
    /\ C25_GroupCount = GroupSlots
    /\ turboOut.marks[1].index = GroupSlots - 1

\* C26: after segmenting any n > 0 of the domain every group value lies in
\* [0, 999], the sum of groups[i] * 1000^i equals n and the most significant
\* group is non-zero, so the first-group flag is true exactly for the most
\* significant non-zero group; splitIntoGroups yields the same groups, most
\* significant first.
C26_Groups == TurboSegment(number, <<>>)
C26_Reversed(gs) == [k \in 1..Len(gs) |-> gs[Len(gs) + 1 - k]]
C26_Segmented ==
    TurboRendered =>
        /\ \A k \in 1..Len(C26_Groups) : C26_Groups[k] \in 0..999
        /\ FromGroups(C26_Groups) = number
        /\ C26_Groups[Len(C26_Groups)] # 0
        /\ turboOut.marks[1].index = Len(C26_Groups) - 1
        /\ turboOut.marks[1].group = C26_Groups[Len(C26_Groups)]
        /\ \A k \in 2..Len(turboOut.marks) :
               turboOut.marks[k].index < turboOut.marks[1].index
        /\ C26_Reversed(splitIntoGroups(number, <<>>)) = C26_Groups
\* a number of five groups whose four lower groups are zero
C26_Witness ==
    /\ TurboRendered
    /\ number = I64(1000, 0)
    /\ C26_Groups = <<0, 0, 0, 0, 1>>
    /\ Len(turboOut.marks) = 1

\* C27: for every n in [0, 999,999,999,999,999] and currency "" or "dong" the
\* text TurboVietnameseConverter.ConvertWithCurrency returns contains no
\* contiguous "muoi mot" (plain one): wherever the tens word "muoi" is
\* directly followed by the digit one, the word is "mot" with the acute tone,
\* once per group with tens digit >= 2 and ones digit 1.
C27_OneAfterTens(g) == g % 10 = 1 /\ (g \div 10) % 10 >= 2
C27_NoPlainOneAfterTens ==
    (turboOut.called /\ turboOut.err = "") =>
        /\ ~Contains(turboOut.text, muoi \o <<SP>> \o mot)
        /\ Occurrences(turboOut.text, muoi \o <<SP>> \o mot21)
               = GroupsWhere(C27_OneAfterTens)
\* 21,000,021 reads "hai muoi mot" twice, both with the acute tone
C27_Witness ==
    /\ turboOut.called
    /\ number = I64(0, 21000021)
    /\ Occurrences(turboOut.text, hai \o <<SP>> \o muoi \o <<SP>> \o mot21) = 2

\* C28 (as claimed): the two NumberConverter implementations are
\* interchangeable: for every number and currency "" or "dong",
\* TurboVietnameseConverter.ConvertWithCurrency and
\* vietnameseConverter.ConvertWithCurrency return the same text and the same
\* error outcome.
C28_Interchangeable ==
    (turboOut.called /\ vcOut.called) =>
        /\ vcOut.text = turboOut.text
        /\ vcOut.err = turboOut.err

\* C29 (as claimed): every response of the /metrics handler is consistent: in
\* any interleaving with requests in flight, the reported peak_latency_ns is
\* at least the reported avg_latency_ns.
C29_MetricsConsistent ==
    \A p \in Clients :
        (scall[p].resp.written /\ scall[p].resp.kind = "metrics") =>
            scall[p].resp.peak_latency_ns >= scall[p].resp.avg_latency_ns

\* C30 (as claimed): the connection pool of PerfectService holds only open
\* connections: after handleConnState(c, StateClosed) the connection c is no
\* longer in connPool.conns, for every sequence of StateNew and StateClosed
\* events over several connections.
C30_Pooled == {connPool.conns[k] : k \in 1..Len(connPool.conns)}
C30_OnlyOpenPooled ==
    \A c \in Conns : connState[c] = "StateClosed" => c \notin C30_Pooled

===========================================================================
